---------------------------- MODULE Spec2Model ----------------------------
(***************************************************************************)
(* Model of file-manager's replicated metadata store:                      *)
(*   src/src/storage/files.rs     the Metadata Repository (three tables)   *)
(*   src/src/storage/db.rs        write/read transactions, purge_all       *)
(*   src/src/storage/models.rs    FileRecord, Patch, WriteOp, FileType     *)
(*   src/src/state_machine.rs     apply / snapshot / restore               *)
(*   src/src/api/handlers/*.rs    the create / update / delete requests    *)
(***************************************************************************)
EXTENDS Integers, Sequences, FiniteSets, TLC

(***************************************************************************)
(* Bounds and input universes.                                             *)
(***************************************************************************)
\* Timestamps are readings of a node's wall clock, 0..MaxClock.
MaxClock == 1
Times == 0..MaxClock

\* File ids (UUID strings) in the byte order of the FILES table's keys.
IdOrder == <<"f1", "f2">>
Ids == {IdOrder[i] : i \in 1..Len(IdOrder)}
IdRank(id) == CHOOSE i \in 1..Len(IdOrder) : IdOrder[i] = id

Permalinks == {"a", "b", "c"}
Subjects == {"u1", "u2"}
\* Values of the free-text optional fields (alt, description, name) and of
\* the metadata map.
Texts == {"x"}
Metadatas == {"m"}

(***************************************************************************)
(* Option<T>: None is the empty sequence, Some(v) the one-element one.     *)
(***************************************************************************)
None == <<>>
Some(v) == <<v>>
IsSome(o) == o # <<>>
Unwrap(o) == o[1]
Opt(S) == {None} \cup {Some(v) : v \in S}

(***************************************************************************)
(* storage/models.rs                                                       *)
(***************************************************************************)
\* Patch<T>: three variants, each with its own representation.
PatchAbsent == [tag |-> "Absent"]
PatchNull == [tag |-> "Null"]
PatchValue(v) == [tag |-> "Value", v |-> v]
Patches(S) == {PatchAbsent, PatchNull} \cup {PatchValue(v) : v \in S}

\* impl From<Option<Option<T>>> for Patch<T>
PatchFrom(oo) ==
    IF oo = None THEN PatchAbsent
    ELSE IF Unwrap(oo) = None THEN PatchNull
    ELSE PatchValue(Unwrap(Unwrap(oo)))

\* Patch::as_option: mutant collapsing Null into "no change".
AsOptionNullIsAbsent(p) ==
    IF p.tag = "Value" THEN Some(Some(p.v)) ELSE None

\* Patch::as_option: the Option<Option<&T>> form the storage layer expects.
AsOption(p) ==
    CASE p.tag = "Absent" -> None
      [] p.tag = "Null" -> Some(None)
      [] p.tag = "Value" -> Some(Some(p.v))

\* FileType::from_mime on the MIME types the model uses.
MimeTypes == {"image/png", "application/pdf"}
FromMime(mime) ==
    CASE mime = "image/png" -> "image"
      [] mime = "application/pdf" -> "document"
      [] OTHER -> "binary"

(***************************************************************************)
(* redb tables: a table is a function whose domain is its set of keys.     *)
(***************************************************************************)
EmptyTable == [x \in {} |-> x]
TGet(t, k) == IF k \in DOMAIN t THEN Some(t[k]) ELSE None
TInsert(t, k, v) == [x \in (DOMAIN t) \cup {k} |-> IF x = k THEN v ELSE t[x]]
TRemove(t, k) == [x \in (DOMAIN t) \ {k} |-> t[x]]

\* Database::open: the three application tables, created empty.
EmptyDb == [files |-> EmptyTable, permalinks |-> EmptyTable, subjects |-> EmptyTable]

\* Vec<String> helpers used on the subject index's id lists.
Contains(seq, x) == \E i \in 1..Len(seq) : seq[i] = x
Retain(seq, x) == SelectSeq(seq, LAMBDA e : e # x)
Push(seq, x) == Append(seq, x)

(***************************************************************************)
(* storage/files.rs: every mutating operation is a list of steps run       *)
(* inside one write transaction.  A step maps a frame                      *)
(*   [db: the transaction's view of the three tables,                     *)
(*    file: the operation's local record (Option<FileRecord>),             *)
(*    ret: the bool it will return, count: PurgeStats.files]               *)
(* to the next frame.  decodeOk says whether rmp_serde::from_slice         *)
(* succeeds on a stored id list read by the step.                          *)
(***************************************************************************)
Frame(d, file) == [db |-> d, file |-> file, ret |-> FALSE, count |-> 0]

\* subject_table.get(sid) decoded with unwrap_or_default(): an absent key
\* and an undecodable value both give the empty Vec.
IdsOrDefault(subjects, sid, decodeOk) ==
    IF sid \in DOMAIN subjects /\ decodeOk THEN subjects[sid] ELSE <<>>

\* Mutant: the shrunk list is always written back, empty or not.
SubjectRemoveIdKeepsKey(subjects, sid, id) ==
    IF sid \notin DOMAIN subjects THEN subjects
    ELSE TInsert(subjects, sid, Retain(subjects[sid], id))

\* ids.retain(|fid| fid != id), then remove the key if empty, else rewrite it.
SubjectRemoveId(subjects, sid, id) ==
    IF sid \notin DOMAIN subjects THEN subjects
    ELSE LET ids == Retain(subjects[sid], id)
         IN IF ids = <<>> THEN TRemove(subjects, sid)
            ELSE TInsert(subjects, sid, ids)

\* Mutant: the id is pushed without looking for it in the list.
SubjectAddIdAlways(subjects, sid, id, decodeOk) ==
    TInsert(subjects, sid, Push(IdsOrDefault(subjects, sid, decodeOk), id))

\* if !file_ids.contains(id) { push; insert }
SubjectAddId(subjects, sid, id, decodeOk) ==
    LET ids == IdsOrDefault(subjects, sid, decodeOk)
    IN IF Contains(ids, id) THEN subjects
       ELSE TInsert(subjects, sid, Push(ids, id))

\* ---- put_file ----
PutRecord(F, call, decodeOk) ==
    [F EXCEPT !.db.files = TInsert(@, call.file.id, call.file)]

\* Mutant: put_file writes no permalink entry.
PutPermalinkSkipped(F, call, decodeOk) == F

PutPermalink(F, call, decodeOk) ==
    [F EXCEPT !.db.permalinks = TInsert(@, call.file.permalink, call.file.id)]

PutSubject(F, call, decodeOk) ==
    IF IsSome(call.file.subject_id)
    THEN [F EXCEPT !.db.subjects =
              SubjectAddId(@, Unwrap(call.file.subject_id), call.file.id, decodeOk)]
    ELSE F

\* ---- delete_file ----
\* file_info: the record is read to learn its permalink and subject_id.
DelLoad(F, call, decodeOk) ==
    [F EXCEPT !.file = TGet(F.db.files, call.id)]

\* Mutant: delete_file cleans the indexes and keeps the record.
DelRecordKeeps(F, call, decodeOk) == F

DelRecord(F, call, decodeOk) ==
    IF IsSome(F.file)
    THEN [F EXCEPT !.db.files = TRemove(@, call.id)]
    ELSE F

DelPermalink(F, call, decodeOk) ==
    IF IsSome(F.file)
    THEN [F EXCEPT !.db.permalinks = TRemove(@, Unwrap(F.file).permalink)]
    ELSE F

DelSubject(F, call, decodeOk) ==
    IF IsSome(F.file)
    THEN LET sid == Unwrap(F.file).subject_id
         IN [F EXCEPT !.db.subjects =
                    IF IsSome(sid) THEN SubjectRemoveId(@, Unwrap(sid), call.id)
                    ELSE @,
                 !.ret = TRUE]
    ELSE F

\* ---- update_file ----
UpdLoad(F, call, decodeOk) ==
    [F EXCEPT !.file = TGet(F.db.files, call.id)]

\* if let Some(x) = patch { file.field = x }: an Option<Option<T>> patch.
Patched(old, oo) == IF IsSome(oo) THEN Unwrap(oo) ELSE old

\* Mutant: the field edits also restamp created_at.
UpdFieldsRestamps(F, call, decodeOk) ==
    IF IsSome(F.file)
    THEN [F EXCEPT !.file = Some([Unwrap(F.file) EXCEPT
              !.alt = Patched(@, call.alt),
              !.description = Patched(@, call.description),
              !.metadata = Patched(@, call.metadata),
              !.name = Patched(@, call.name),
              !.created_at = call.now])]
    ELSE F

UpdFields(F, call, decodeOk) ==
    IF IsSome(F.file)
    THEN [F EXCEPT !.file = Some([Unwrap(F.file) EXCEPT
              !.alt = Patched(@, call.alt),
              !.description = Patched(@, call.description),
              !.metadata = Patched(@, call.metadata),
              !.name = Patched(@, call.name)])]
    ELSE F

\* Mutant: the old permalink's index entry is left behind.
UpdPermRemoveKeepsOld(F, call, decodeOk) == F

UpdPermRemove(F, call, decodeOk) ==
    IF IsSome(F.file) /\ IsSome(call.permalink)
    THEN [F EXCEPT !.db.permalinks = TRemove(@, Unwrap(F.file).permalink)]
    ELSE F

\* Mutant: the new permalink entry is written whether or not the record exists.
UpdPermInsertUnguarded(F, call, decodeOk) ==
    IF IsSome(call.permalink)
    THEN [F EXCEPT !.file = IF IsSome(F.file)
                            THEN Some([Unwrap(F.file) EXCEPT
                                          !.permalink = Unwrap(call.permalink)])
                            ELSE F.file,
                   !.db.permalinks = TInsert(@, Unwrap(call.permalink), call.id)]
    ELSE F

UpdPermInsert(F, call, decodeOk) ==
    IF IsSome(F.file) /\ IsSome(call.permalink)
    THEN [F EXCEPT !.file = Some([Unwrap(F.file) EXCEPT
                                     !.permalink = Unwrap(call.permalink)]),
                   !.db.permalinks = TInsert(@, Unwrap(call.permalink), call.id)]
    ELSE F

\* Mutant: the old subject's list is edited only when a new subject is given.
UpdSubjRemoveOnlyOnMove(F, call, decodeOk) ==
    IF /\ IsSome(F.file) /\ IsSome(call.subject_id)
       /\ IsSome(Unwrap(call.subject_id)) /\ IsSome(Unwrap(F.file).subject_id)
    THEN [F EXCEPT !.db.subjects =
              SubjectRemoveId(@, Unwrap(Unwrap(F.file).subject_id), call.id)]
    ELSE F

UpdSubjRemove(F, call, decodeOk) ==
    IF IsSome(F.file) /\ IsSome(call.subject_id) /\ IsSome(Unwrap(F.file).subject_id)
    THEN [F EXCEPT !.db.subjects =
              SubjectRemoveId(@, Unwrap(Unwrap(F.file).subject_id), call.id)]
    ELSE F

\* Mutant: the id is added to the new subject's list whether or not the
\* record exists.
UpdSubjAddUnguarded(F, call, decodeOk) ==
    IF IsSome(call.subject_id)
    THEN LET new == Unwrap(call.subject_id)
         IN [F EXCEPT !.file = IF IsSome(F.file)
                                THEN Some([Unwrap(F.file) EXCEPT !.subject_id = new])
                                ELSE F.file,
                      !.db.subjects =
                          IF IsSome(new)
                          THEN SubjectAddId(@, Unwrap(new), call.id, decodeOk)
                          ELSE @]
    ELSE F

UpdSubjAdd(F, call, decodeOk) ==
    IF IsSome(F.file) /\ IsSome(call.subject_id)
    THEN LET new == Unwrap(call.subject_id)
         IN [F EXCEPT !.file = Some([Unwrap(F.file) EXCEPT !.subject_id = new]),
                      !.db.subjects =
                          IF IsSome(new)
                          THEN SubjectAddId(@, Unwrap(new), call.id, decodeOk)
                          ELSE @]
    ELSE F

\* Mutant: the record is written back with the updated_at it had.
UpdRecordKeepsTime(F, call, decodeOk) ==
    IF IsSome(F.file)
    THEN [F EXCEPT !.db.files = TInsert(@, call.id, Unwrap(F.file)),
                   !.ret = TRUE]
    ELSE F

UpdRecord(F, call, decodeOk) ==
    IF IsSome(F.file)
    THEN LET file == [Unwrap(F.file) EXCEPT !.updated_at = call.now]
         IN [F EXCEPT !.file = Some(file),
                      !.db.files = TInsert(@, call.id, file),
                      !.ret = TRUE]
    ELSE F

\* ---- storage/db.rs purge_all ----
PurgeFiles(F, call, decodeOk) ==
    [F EXCEPT !.count = Cardinality(DOMAIN F.db.files), !.db.files = EmptyTable]

PurgePermalinks(F, call, decodeOk) ==
    [F EXCEPT !.db.permalinks = EmptyTable]

\* Mutant: purge_all stops before the subject index.
PurgeSubjectsSkipped(F, call, decodeOk) == F

PurgeSubjects(F, call, decodeOk) ==
    [F EXCEPT !.db.subjects = EmptyTable]

(***************************************************************************)
(* The steps of each operation, in program order, and their composition.   *)
(***************************************************************************)
Steps(op) ==
    CASE op = "put" -> <<"PutRecord", "PutPermalink", "PutSubject">>
      [] op = "delete" -> <<"DelLoad", "DelRecord", "DelPermalink", "DelSubject">>
      [] op = "update" -> <<"UpdLoad", "UpdFields", "UpdPermRemove", "UpdPermInsert",
                            "UpdSubjRemove", "UpdSubjAdd", "UpdRecord">>
      [] op = "purge" -> <<"PurgeFiles", "PurgePermalinks", "PurgeSubjects">>

StepApply(step, F, call, decodeOk) ==
    CASE step = "PutRecord" -> PutRecord(F, call, decodeOk)
      [] step = "PutPermalink" -> PutPermalink(F, call, decodeOk)
      [] step = "PutSubject" -> PutSubject(F, call, decodeOk)
      [] step = "DelLoad" -> DelLoad(F, call, decodeOk)
      [] step = "DelRecord" -> DelRecord(F, call, decodeOk)
      [] step = "DelPermalink" -> DelPermalink(F, call, decodeOk)
      [] step = "DelSubject" -> DelSubject(F, call, decodeOk)
      [] step = "UpdLoad" -> UpdLoad(F, call, decodeOk)
      [] step = "UpdFields" -> UpdFields(F, call, decodeOk)
      [] step = "UpdPermRemove" -> UpdPermRemove(F, call, decodeOk)
      [] step = "UpdPermInsert" -> UpdPermInsert(F, call, decodeOk)
      [] step = "UpdSubjRemove" -> UpdSubjRemove(F, call, decodeOk)
      [] step = "UpdSubjAdd" -> UpdSubjAdd(F, call, decodeOk)
      [] step = "UpdRecord" -> UpdRecord(F, call, decodeOk)
      [] step = "PurgeFiles" -> PurgeFiles(F, call, decodeOk)
      [] step = "PurgePermalinks" -> PurgePermalinks(F, call, decodeOk)
      [] step = "PurgeSubjects" -> PurgeSubjects(F, call, decodeOk)

\* The frame after steps i..end of the call.
RECURSIVE RunWith(_, _, _, _)
RunWith(F, call, i, decodeOk) ==
    IF i > Len(Steps(call.op)) THEN F
    ELSE RunWith(StepApply(Steps(call.op)[i], F, call, decodeOk), call, i + 1,
                 decodeOk)

\* The same, all decodes succeeding.
RunFrom(F, call, i) == RunWith(F, call, i, TRUE)

\* One whole operation: begin_write, every step, commit.
RunCall(d, call) == RunFrom(Frame(d, None), call, 1)

PutCall(file) == [op |-> "put", file |-> file]
DeleteCall(id) == [op |-> "delete", id |-> id]
UpdateCall(id, alt, description, metadata, name, permalink, subject_id, now) ==
    [op |-> "update", id |-> id, alt |-> alt, description |-> description,
     metadata |-> metadata, name |-> name, permalink |-> permalink,
     subject_id |-> subject_id, now |-> now]
PurgeCall == [op |-> "purge"]

\* Database::put_file, delete_file, update_file, purge_all as functions of the
\* committed tables.
PutFile(d, file) == RunCall(d, PutCall(file)).db
DeleteFile(d, id) == RunCall(d, DeleteCall(id))
UpdateFile(d, call) == RunCall(d, call)
PurgeAll(d) == RunCall(d, PurgeCall)

(***************************************************************************)
(* state_machine.rs: apply.  A WriteOp is CreateFile(file), DeleteFile{id}  *)
(* or UpdateFile{id, alt, description, metadata, name: Patch, permalink:   *)
(* Option, subject_id: Patch}; now is the applying node's Utc::now().      *)
(***************************************************************************)
CreateFileOp(file) == [type |-> "CreateFile", file |-> file]
DeleteFileOp(id) == [type |-> "DeleteFile", id |-> id]
UpdateFileOp(id, alt, description, metadata, name, permalink, subject_id) ==
    [type |-> "UpdateFile", id |-> id, alt |-> alt, description |-> description,
     metadata |-> metadata, name |-> name, permalink |-> permalink,
     subject_id |-> subject_id]

\* The repository call apply makes for an op.
CallOf(op, now) ==
    CASE op.type = "CreateFile" -> PutCall(op.file)
      [] op.type = "DeleteFile" -> DeleteCall(op.id)
      [] op.type = "UpdateFile" ->
            UpdateCall(op.id, AsOption(op.alt), AsOption(op.description),
                       AsOption(op.metadata), AsOption(op.name), op.permalink,
                       AsOption(op.subject_id), now)

Apply(d, op, now) == RunCall(d, CallOf(op, now)).db

(***************************************************************************)
(* storage/files.rs: the read operations, each inside one read transaction.*)
(***************************************************************************)
GetFile(d, id) == TGet(d.files, id)

GetFileByPermalink(d, permalink) ==
    IF permalink \in DOMAIN d.permalinks
    THEN TGet(d.files, d.permalinks[permalink])
    ELSE None

\* The records of the ids in the subject's list that are in the primary
\* table, in list order.
\* Mutant: a list with an id that is not in the primary table loads nothing.
LoadEachAllOrNothing(files, ids) ==
    IF \A i \in 1..Len(ids) : ids[i] \in DOMAIN files
    THEN [i \in 1..Len(ids) |-> files[ids[i]]]
    ELSE <<>>

RECURSIVE LoadEach(_, _)
LoadEach(files, ids) ==
    IF ids = <<>> THEN <<>>
    ELSE (IF Head(ids) \in DOMAIN files THEN <<files[Head(ids)]>> ELSE <<>>)
         \o LoadEach(files, Tail(ids))

GetFilesBySubject(d, sid) ==
    IF sid \in DOMAIN d.subjects THEN LoadEach(d.files, d.subjects[sid]) ELSE <<>>

\* table.iter(): the records in the order of their keys.
RECURSIVE ScanFrom(_, _)
ScanFrom(files, i) ==
    IF i > Len(IdOrder) THEN <<>>
    ELSE (IF IdOrder[i] \in DOMAIN files THEN <<files[IdOrder[i]]>> ELSE <<>>)
         \o ScanFrom(files, i + 1)

GetAllFiles(d) == ScanFrom(d.files, 1)

PermalinkExists(d, permalink) == permalink \in DOMAIN d.permalinks

\* serde_json::to_string(&file_type): the lowercase name between two quotes;
\* trim_matches('"') strips the quotes at both ends.
ToJsonString(file_type) == <<"\"", file_type, "\"">>

RECURSIVE TrimFront(_, _)
TrimFront(seq, c) ==
    IF seq # <<>> /\ Head(seq) = c THEN TrimFront(Tail(seq), c) ELSE seq

RECURSIVE TrimBack(_, _)
TrimBack(seq, c) ==
    IF seq # <<>> /\ seq[Len(seq)] = c
    THEN TrimBack(SubSeq(seq, 1, Len(seq) - 1), c)
    ELSE seq

TrimMatches(seq, c) == TrimBack(TrimFront(seq, c), c)

\* list_files: the subject's records through the subject index, or all
\* records; then the file_type filter over that result.
ListFiles(d, file_type, subject_id) ==
    LET all == IF IsSome(subject_id)
               THEN GetFilesBySubject(d, Unwrap(subject_id))
               ELSE GetAllFiles(d)
    IN IF IsSome(file_type)
       THEN SelectSeq(all, LAMBDA f :
                TrimMatches(ToJsonString(f.file_type), "\"") = <<Unwrap(file_type)>>)
       ELSE all

(***************************************************************************)
(* state_machine.rs: snapshot and restore.                                 *)
(***************************************************************************)
\* snapshot: FileSnapshot { files: get_all_files() }.
Snapshot(d) == GetAllFiles(d)

\* restore: put_file for every record of the snapshot, in its order.
RECURSIVE Restore(_, _)
Restore(d, files) ==
    IF files = <<>> THEN d
    ELSE Restore(PutFile(d, Head(files)), Tail(files))

(***************************************************************************)
(* State.                                                                  *)
(***************************************************************************)
VARIABLES
    db,      \* the node's committed tables: [files, permalinks, subjects]
    replica, \* SpecRepl: the committed tables of each node of the cluster
    step,    \* SpecRepl: what the cluster did last: "apply" or "restore"
    thread,  \* SpecTxn: what each thread is doing
    txn,     \* SpecTxn: each thread's write transaction, if it has one
    view,    \* SpecTxn: the tables each thread's read transaction sees
    req,     \* SpecReq: each HTTP request's position in its handler
    blobs,   \* SpecReq: the keys held by the object store
    fs,      \* SpecStore: the files of the LocalStore's directory, by path
    kv,      \* SpecStore: the bytes last put and not deleted since, by key
    out      \* SpecStore: the last object store call and what it returned

replVars == <<replica, step>>
txnVars == <<thread, txn, view>>
reqVars == <<req, blobs>>
storeVars == <<fs, kv, out>>
vars == <<db, replica, step, thread, txn, view, req, blobs, fs, kv, out>>

Threads == {"t1", "t2"}
Reqs == {"r1", "r2"}
ReqIdle == [pc |-> "idle"]

Nodes == {"n1", "n2"}

\* A FileRecord as the create handler builds it (created_at = updated_at).
NewRecord(id, mime, permalink, now, alt, description, metadata, name, subject_id) ==
    [id |-> id, mime_type |-> mime, file_type |-> FromMime(mime), byte_size |-> 1,
     permalink |-> permalink, created_at |-> now, updated_at |-> now,
     alt |-> alt, description |-> description, metadata |-> metadata,
     name |-> name, subject_id |-> subject_id]

\* The MIME type the model uploads under each id.
MimeOf(id) == IF id = IdOrder[1] THEN "image/png" ELSE "application/pdf"

Init ==
    /\ db = EmptyDb
    /\ replica = [n \in Nodes |-> EmptyDb]
    /\ step = "init"
    /\ thread = [t \in Threads |-> "idle"]
    /\ txn = [t \in Threads |-> None]
    /\ view = [t \in Threads |-> None]
    /\ req = [r \in Reqs |-> ReqIdle]
    /\ blobs = {}
    /\ fs = EmptyTable
    /\ kv = EmptyTable
    /\ out = None

(***************************************************************************)
(* Spec: the Metadata Repository driven through its public operations,    *)
(* each one write transaction, with any ids, permalinks and subjects.      *)
(***************************************************************************)
\* Records handed to put, and the calls handed to update.  The free-text
\* fields and the clock are held fixed here; SpecPatch varies them.
RepoRecords ==
    {NewRecord(id, MimeOf(id), p, 0, None, None, None, None, s) :
        id \in Ids, p \in Permalinks, s \in Opt(Subjects)}

RepoUpdates ==
    {UpdateCall(id, None, None, None, None, p, s, 0) :
        id \in Ids, p \in Opt(Permalinks), s \in Opt(Opt(Subjects))}

Put(file) ==
    /\ db' = PutFile(db, file)
    /\ UNCHANGED <<replVars, txnVars, reqVars, storeVars>>

Delete(id) ==
    /\ db' = DeleteFile(db, id).db
    /\ UNCHANGED <<replVars, txnVars, reqVars, storeVars>>

Update(call) ==
    /\ db' = UpdateFile(db, call).db
    /\ UNCHANGED <<replVars, txnVars, reqVars, storeVars>>

Next ==
    \/ \E file \in RepoRecords : Put(file)
    \/ \E id \in Ids : Delete(id)
    \/ \E call \in RepoUpdates : Update(call)

Spec == Init /\ [][Next]_vars

\* The live records and the ids an index list holds.
Live(d) == DOMAIN d.files
IdSet(seq) == {seq[i] : i \in 1..Len(seq)}

(***************************************************************************)
(* C1: after every put, update and delete, the PermalinkIndex holds        *)
(* exactly one entry per live record, keyed by the record's current        *)
(* permalink and mapping to its id, and nothing else.                      *)
(***************************************************************************)
PermalinkIndexExact(d) ==
    /\ \A id \in Live(d) : TGet(d.permalinks, d.files[id].permalink) = Some(id)
    /\ \A p \in DOMAIN d.permalinks :
          /\ d.permalinks[p] \in Live(d)
          /\ d.files[d.permalinks[p]].permalink = p

C1_PermalinkIndexExact == PermalinkIndexExact(db)

(***************************************************************************)
(* C2: after every put, update and delete, the SubjectIndex has a key s    *)
(* iff some live record has subjectId s, the ids under s are exactly the   *)
(* live records with that subjectId, and no key holds an empty list.       *)
(***************************************************************************)
SubjectIndexExact(d) ==
    \A s \in Subjects :
        LET owners == {id \in Live(d) : d.files[id].subject_id = Some(s)}
        IN /\ (s \in DOMAIN d.subjects) <=> (owners # {})
           /\ s \in DOMAIN d.subjects =>
                 /\ IdSet(d.subjects[s]) = owners
                 /\ d.subjects[s] # <<>>

C2_SubjectIndexExact == SubjectIndexExact(db)

(***************************************************************************)
(* C9: after update(id, permalink = p2) succeeds on a live record whose    *)
(* permalink was p1 # p2, p2 held by no other record, getByPermalink(p1)   *)
(* is none, getByPermalink(p2) is the record of that id, and the stored    *)
(* record's permalink is p2.                                               *)
(***************************************************************************)
\* The case of C9: a call that moves a live record to a free permalink.
C9_Case(call) ==
    /\ call.id \in Live(db)
    /\ IsSome(call.permalink)
    /\ db.files[call.id].permalink # Unwrap(call.permalink)
    /\ \A other \in Live(db) \ {call.id} :
          db.files[other].permalink # Unwrap(call.permalink)

C9_UpdatePermalinkResolves ==
    \A call \in RepoUpdates :
        C9_Case(call) =>
            LET F == UpdateFile(db, call)
                p1 == db.files[call.id].permalink
                p2 == Unwrap(call.permalink)
            IN /\ F.ret
               /\ GetFileByPermalink(F.db, p1) = None
               /\ IsSome(GetFileByPermalink(F.db, p2))
               /\ Unwrap(GetFileByPermalink(F.db, p2)).id = call.id
               /\ GetFileByPermalink(F.db, p2) = GetFile(F.db, call.id)
               /\ Unwrap(GetFile(F.db, call.id)).permalink = p2

\* Both records are live under permalinks of their own and the index is
\* exact, so resolving p1 or p2 could hit the other record.
C9_Witness ==
    \E call \in RepoUpdates :
        /\ C9_Case(call)
        /\ UpdateFile(db, call).ret
        /\ Live(db) = Ids
        /\ PermalinkIndexExact(db)

(***************************************************************************)
(* C8: when update moves a live record from subject s1 to another subject  *)
(* s2, the committed state before it has the id under s1 and not under s2, *)
(* the committed state after it has the id under s2 and not under s1, and  *)
(* s1's key is gone if its list became empty.                              *)
(***************************************************************************)
InSubject(d, s, id) == s \in DOMAIN d.subjects /\ Contains(d.subjects[s], id)

\* The case of C8: a call that moves a live record to another subject.
C8_Case(call) ==
    /\ call.id \in Live(db)
    /\ IsSome(db.files[call.id].subject_id)
    /\ IsSome(call.subject_id)
    /\ IsSome(Unwrap(call.subject_id))
    /\ Unwrap(Unwrap(call.subject_id)) # Unwrap(db.files[call.id].subject_id)

C8_SubjectMoveExclusive ==
    \A call \in RepoUpdates :
        C8_Case(call) =>
            LET F == UpdateFile(db, call)
                s1 == Unwrap(db.files[call.id].subject_id)
                s2 == Unwrap(Unwrap(call.subject_id))
            IN /\ InSubject(db, s1, call.id) /\ ~InSubject(db, s2, call.id)
               /\ InSubject(F.db, s2, call.id) /\ ~InSubject(F.db, s1, call.id)
               /\ s1 \in DOMAIN F.db.subjects => F.db.subjects[s1] # <<>>

(***************************************************************************)
(* SpecPatch: one record driven through apply with every combination of    *)
(* optional fields and patches, at any reading of the node's clock.        *)
(***************************************************************************)
PatchId == IdOrder[1]
PatchPermalink == "a"

PatchCreates ==
    {CreateFileOp(NewRecord(PatchId, MimeOf(PatchId), PatchPermalink, now,
                            alt, description, metadata, name, s)) :
        now \in Times, alt \in Opt(Texts), description \in Opt(Texts),
        metadata \in Opt(Metadatas), name \in Opt(Texts), s \in Opt(Subjects)}

PatchUpdates ==
    {UpdateFileOp(PatchId, alt, description, metadata, name, None, s) :
        alt \in Patches(Texts), description \in Patches(Texts),
        metadata \in Patches(Metadatas), name \in Patches(Texts),
        s \in Patches(Subjects)}

PatchCreate(op) ==
    /\ db' = Apply(db, op, 0)
    /\ UNCHANGED <<replVars, txnVars, reqVars, storeVars>>

PatchUpdate(op, now) ==
    /\ db' = Apply(db, op, now)
    /\ UNCHANGED <<replVars, txnVars, reqVars, storeVars>>

PatchDelete ==
    /\ db' = Apply(db, DeleteFileOp(PatchId), 0)
    /\ UNCHANGED <<replVars, txnVars, reqVars, storeVars>>

NextPatch ==
    \/ \E op \in PatchCreates : PatchCreate(op)
    \/ \E op \in PatchUpdates, now \in Times : PatchUpdate(op, now)
    \/ PatchDelete

SpecPatch == Init /\ [][NextPatch]_vars

(***************************************************************************)
(* C10: for each optional field (alt, description, metadata, name,         *)
(* subjectId) of a live record, an UpdateFile op with Patch::Absent leaves *)
(* the field as it was, Patch::Null sets it to none and Patch::Value(v)    *)
(* sets it to v, whatever the patches of the other fields are.             *)
(***************************************************************************)
OptionalFields == {"alt", "description", "metadata", "name", "subject_id"}

\* What the claim says a patch makes of a field's value.
C10_Expected(old, patch) ==
    CASE patch = PatchAbsent -> old
      [] patch = PatchNull -> None
      [] OTHER -> Some(patch.v)

C10_PatchPerField ==
    \A op \in PatchUpdates, now \in Times :
        op.id \in Live(db) =>
            LET after == Apply(db, op, now)
            IN /\ op.id \in Live(after)
               /\ \A f \in OptionalFields :
                     after.files[op.id][f] = C10_Expected(db.files[op.id][f], op[f])

\* A live record on which the three kinds of patch are told apart: fields
\* that are set (Absent keeps, Null clears) and one that is unset (Value sets).
C10_Witness ==
    /\ PatchId \in Live(db)
    /\ db.files[PatchId].alt = Some("x")
    /\ db.files[PatchId].description = None
    /\ db.files[PatchId].metadata = Some("m")
    /\ db.files[PatchId].name = Some("x")
    /\ db.files[PatchId].subject_id = Some("u1")
    /\ db.files[PatchId].updated_at = MaxClock

(***************************************************************************)
(* SpecRepl: a cluster of two nodes applying one op log.  Every op passed  *)
(* its handler's checks with no other request in flight (a fresh id and a  *)
(* free permalink for CreateFile, a live id and a free or unchanged        *)
(* permalink for UpdateFile, a live id for DeleteFile), and each node      *)
(* applies it at a reading of its own wall clock.  A node can be replaced  *)
(* by a fresh one that restores a snapshot taken on the other node.        *)
(***************************************************************************)
ReplCreates ==
    {CreateFileOp(NewRecord(id, MimeOf(id), p, 0, None, None, None, None, s)) :
        id \in Ids, p \in Permalinks, s \in Opt(Subjects)}

ReplUpdates ==
    {UpdateFileOp(id, PatchAbsent, PatchAbsent, PatchAbsent, PatchAbsent, p, s) :
        id \in Ids, p \in Opt(Permalinks), s \in Patches(Subjects)}

ReplDeletes == {DeleteFileOp(id) : id \in Ids}

\* The checks of create_file, update_file and delete_file against the tables d.
Accepted(d, op) ==
    CASE op.type = "CreateFile" ->
            /\ op.file.id \notin Live(d)
            /\ ~PermalinkExists(d, op.file.permalink)
      [] op.type = "UpdateFile" ->
            /\ op.id \in Live(d)
            /\ IsSome(op.permalink) =>
                  \/ Unwrap(op.permalink) = d.files[op.id].permalink
                  \/ ~PermalinkExists(d, Unwrap(op.permalink))
      [] op.type = "DeleteFile" -> op.id \in Live(d)

ReplApply(op, now) ==
    /\ Accepted(replica["n1"], op)
    /\ replica' = [n \in Nodes |-> Apply(replica[n], op, now[n])]
    /\ step' = "apply"
    /\ UNCHANGED <<db, txnVars, reqVars, storeVars>>

ReplRestoreFresh ==
    /\ replica' = [replica EXCEPT !["n2"] = Restore(EmptyDb, Snapshot(replica["n1"]))]
    /\ step' = "restore"
    /\ UNCHANGED <<db, txnVars, reqVars, storeVars>>

\* Node n2, which has the records and indexes that n1 has, misses an op
\* that n1 applies and is then fast-forwarded: it restores, on the store it
\* has, a snapshot that n1 takes after the op.
ReplCatchUp(op, now) ==
    /\ Live(replica["n2"]) = Live(replica["n1"])
    /\ replica["n2"].permalinks = replica["n1"].permalinks
    /\ replica["n2"].subjects = replica["n1"].subjects
    /\ Accepted(replica["n1"], op)
    /\ replica' =
          [n1 |-> Apply(replica["n1"], op, now),
           n2 |-> Restore(replica["n2"],
                          Snapshot(Apply(replica["n1"], op, now)))]
    /\ step' = "catchup"
    /\ UNCHANGED <<db, txnVars, reqVars, storeVars>>

NextRepl ==
    \/ \E op \in ReplCreates \cup ReplUpdates \cup ReplDeletes, now \in [Nodes -> Times] :
          ReplApply(op, now)
    \/ ReplRestoreFresh
    \/ \E op \in ReplCreates \cup ReplUpdates \cup ReplDeletes, now \in Times :
          ReplCatchUp(op, now)

SpecRepl == Init /\ [][NextRepl]_vars

(***************************************************************************)
(* C5: apply is deterministic: two nodes whose stores are equal before     *)
(* they apply an op are equal afterwards, in every field of every record   *)
(* and in both indexes, whatever the wall-clock time at each node.         *)
(***************************************************************************)
C5_ApplyDeterministic ==
    [][(step' = "apply" /\ replica["n1"] = replica["n2"])
          => replica'["n1"] = replica'["n2"]]_vars

(***************************************************************************)
(* C6: snapshot() of a state followed by restore() on a freshly empty      *)
(* store gives the same records, the same PermalinkIndex entries and the   *)
(* same id list under each SubjectIndex key.                               *)
(***************************************************************************)
C6_SnapshotRestoreRoundTrip ==
    step = "restore" =>
        /\ replica["n2"].files = replica["n1"].files
        /\ replica["n2"].permalinks = replica["n1"].permalinks
        /\ replica["n2"].subjects = replica["n1"].subjects

(***************************************************************************)
(* SpecTxn: threads of one node running repository operations              *)
(* concurrently.  A mutating operation takes the write transaction         *)
(* (begin_write blocks while another one is in flight), runs its steps on  *)
(* the transaction's own copy of the tables and commits; any step can fail *)
(* with a storage error.  A read operation runs on the snapshot its read   *)
(* transaction took at begin_read.  Records are put under ids that are not *)
(* live, each id with a permalink of its own.                              *)
(***************************************************************************)
TxnSubjects == {"u1"}
TxnPermalink(id) == IF id = IdOrder[1] THEN "a" ELSE "b"

TxnCalls ==
    {PutCall(NewRecord(id, MimeOf(id), TxnPermalink(id), 0, None, None, None,
                       None, s)) : id \in Ids, s \in Opt(TxnSubjects)}
    \cup {DeleteCall(id) : id \in Ids}
    \cup {UpdateCall(id, None, None, None, None, None, s, 0) :
             id \in Ids, s \in Opt(Opt(TxnSubjects))}
    \cup {PurgeCall}

\* Mutant: begin_write does not wait for the transaction in flight.
WriterFreeAlways(t) == TRUE

\* redb's begin_write returns once no other write transaction is in flight.
WriterFree(t) == \A u \in Threads \ {t} : txn[u] = None

\* The step a write transaction is about to run; past the last one, commit.
TxnLen(t) == Len(Steps(Unwrap(txn[t]).call.op))
TxnStepName(t) == Steps(Unwrap(txn[t]).call.op)[Unwrap(txn[t]).pc]

\* The step reads a stored id list through from_slice(..).unwrap_or_default().
DecodesStored(name, F, call) ==
    \/ /\ name = "PutSubject"
       /\ IsSome(call.file.subject_id)
       /\ Unwrap(call.file.subject_id) \in DOMAIN F.db.subjects
    \/ /\ name = "UpdSubjAdd"
       /\ IsSome(F.file)
       /\ IsSome(call.subject_id)
       /\ IsSome(Unwrap(call.subject_id))
       /\ Unwrap(Unwrap(call.subject_id)) \in DOMAIN F.db.subjects

BeginWrite(t, call) ==
    /\ thread[t] = "idle"
    /\ call.op = "put" => call.file.id \notin Live(db)
    /\ WriterFree(t)
    /\ thread' = [thread EXCEPT ![t] = "write"]
    /\ txn' = [txn EXCEPT ![t] =
                  Some([call |-> call, F |-> Frame(db, None), pc |-> 1,
                        fault |-> FALSE])]
    /\ UNCHANGED <<db, view, replVars, reqVars, storeVars>>

\* A mutating operation is called while begin_write cannot return yet, or
\* before it has: the thread is blocked in begin_write.
Request(t) ==
    /\ thread[t] = "idle"
    /\ thread' = [thread EXCEPT ![t] = "wait"]
    /\ UNCHANGED <<db, txn, view, replVars, reqVars, storeVars>>

\* begin_write returns to a blocked thread: no write transaction is in
\* flight any more and this thread is the one that gets the next.
Acquire(t, call) ==
    /\ thread[t] = "wait"
    /\ call.op = "put" => call.file.id \notin Live(db)
    /\ WriterFree(t)
    /\ thread' = [thread EXCEPT ![t] = "write"]
    /\ txn' = [txn EXCEPT ![t] =
                  Some([call |-> call, F |-> Frame(db, None), pc |-> 1,
                        fault |-> FALSE])]
    /\ UNCHANGED <<db, view, replVars, reqVars, storeVars>>

\* self.begin_write()? fails: the operation returns the error.
BeginWriteFails(t) ==
    /\ thread[t] = "idle"
    /\ thread' = [thread EXCEPT ![t] = "err"]
    /\ UNCHANGED <<db, txn, view, replVars, reqVars, storeVars>>

TxnStep(t) ==
    /\ thread[t] = "write"
    /\ Unwrap(txn[t]).pc <= TxnLen(t)
    /\ LET T == Unwrap(txn[t])
       IN txn' = [txn EXCEPT ![t] =
                     Some([T EXCEPT !.F = StepApply(TxnStepName(t), T.F, T.call, TRUE),
                                    !.pc = T.pc + 1])]
    /\ UNCHANGED <<db, thread, view, replVars, reqVars, storeVars>>

\* A step's `?` (open_table, get, insert, remove, encode, decode of a record
\* or of the list being shrunk) or commit()? returns the error: the
\* WriteTransaction is dropped without commit, which aborts it.
TxnStepFails(t) ==
    /\ thread[t] = "write"
    /\ thread' = [thread EXCEPT ![t] = "err"]
    /\ txn' = [txn EXCEPT ![t] = None]
    /\ UNCHANGED <<db, view, replVars, reqVars, storeVars>>

\* The stored id list does not decode in put_file or in update_file's "add
\* to new subject index": unwrap_or_default() turns the error into an empty
\* Vec and the operation goes on.
TxnDecodeSwallowed(t) ==
    /\ thread[t] = "write"
    /\ Unwrap(txn[t]).pc <= TxnLen(t)
    /\ DecodesStored(TxnStepName(t), Unwrap(txn[t]).F, Unwrap(txn[t]).call)
    /\ LET T == Unwrap(txn[t])
       IN txn' = [txn EXCEPT ![t] =
                     Some([T EXCEPT !.F = StepApply(TxnStepName(t), T.F, T.call, FALSE),
                                    !.pc = T.pc + 1,
                                    !.fault = TRUE])]
    /\ UNCHANGED <<db, thread, view, replVars, reqVars, storeVars>>

\* Mutant: commit does not release the write transaction.
CommitKeepsTransaction(t) ==
    /\ thread[t] = "write"
    /\ Unwrap(txn[t]).pc = TxnLen(t) + 1
    /\ db' = Unwrap(txn[t]).F.db
    /\ thread' = [thread EXCEPT ![t] = "ok"]
    /\ txn' = txn
    /\ UNCHANGED <<view, replVars, reqVars, storeVars>>

\* write_txn.commit() succeeds: the transaction's tables become the
\* committed ones and the operation returns Ok.
Commit(t) ==
    /\ thread[t] = "write"
    /\ Unwrap(txn[t]).pc = TxnLen(t) + 1
    /\ db' = Unwrap(txn[t]).F.db
    /\ thread' = [thread EXCEPT ![t] = "ok"]
    /\ txn' = [txn EXCEPT ![t] = None]
    /\ UNCHANGED <<view, replVars, reqVars, storeVars>>

\* The caller has the operation's result; the thread takes its next call.
Return(t) ==
    /\ thread[t] \in {"ok", "err"}
    /\ thread' = [thread EXCEPT ![t] = "idle"]
    /\ UNCHANGED <<db, txn, view, replVars, reqVars, storeVars>>

\* begin_read: the read transaction sees the tables as last committed.
BeginRead(t) ==
    /\ thread[t] = "idle"
    /\ thread' = [thread EXCEPT ![t] = "read"]
    /\ view' = [view EXCEPT ![t] = Some(db)]
    /\ UNCHANGED <<db, txn, replVars, reqVars, storeVars>>

EndRead(t) ==
    /\ thread[t] = "read"
    /\ thread' = [thread EXCEPT ![t] = "idle"]
    /\ view' = [view EXCEPT ![t] = None]
    /\ UNCHANGED <<db, txn, replVars, reqVars, storeVars>>

NextTxn ==
    \E t \in Threads :
        \/ \E call \in TxnCalls : BeginWrite(t, call)
        \/ Request(t)
        \/ \E call \in TxnCalls : Acquire(t, call)
        \/ BeginWriteFails(t)
        \/ TxnStep(t)
        \/ TxnStepFails(t)
        \/ TxnDecodeSwallowed(t)
        \/ Commit(t)
        \/ Return(t)
        \/ BeginRead(t)
        \/ EndRead(t)

SpecTxn == Init /\ [][NextTxn]_vars

(***************************************************************************)
(* C4: if a step of a mutating operation fails with a storage error, the   *)
(* operation returns the error and the committed tables are the ones it    *)
(* started from.  A thread that leaves its write transaction after one of  *)
(* its steps failed is in "err" and db is unchanged.                       *)
(***************************************************************************)
C4_StorageErrorRollsBack ==
    [][\A t \in Threads :
          /\ (thread[t] = "write" /\ Unwrap(txn[t]).fault /\ thread'[t] # "write")
                => (thread'[t] = "err" /\ db' = db)
          /\ (thread[t] # "err" /\ thread'[t] = "err") => db' = db]_vars

(***************************************************************************)
(* C7: repository operations are atomic with respect to each other: at     *)
(* most one write transaction is in flight, the committed tables change    *)
(* only by the whole of one operation applied to them, and what a read     *)
(* operation sees is the committed tables of the moment it began, the same *)
(* for as long as it runs.                                                 *)
(***************************************************************************)
\* The tables a whole call leaves, run on d without interruption.
WholeResults(d, call) ==
    {RunWith(Frame(d, None), call, 1, ok).db : ok \in BOOLEAN}

C7_OperationsAtomic ==
    [][/\ Cardinality({t \in Threads : thread'[t] = "write"}) <= 1
       /\ db' # db =>
             \E t \in Threads :
                 /\ thread[t] = "write"
                 /\ db' \in WholeResults(db, Unwrap(txn[t]).call)
       /\ \A t \in Threads :
             thread'[t] = "read" =>
                 IF thread[t] = "read" THEN view'[t] = view[t]
                 ELSE view'[t] = Some(db) /\ db' = db]_vars

\* A writer is in the middle of an operation, with some of its table edits
\* made, while a reader that began before the last commit is still reading.
C7_Witness ==
    \E t, u \in Threads :
        /\ thread[t] = "read"
        /\ thread[u] = "write"
        /\ Unwrap(txn[u]).pc > 1
        /\ Unwrap(txn[u]).pc <= TxnLen(u)
        /\ Unwrap(txn[u]).F.db # db
        /\ Unwrap(view[t]) # db
        /\ Unwrap(view[t]) # Unwrap(txn[u]).F.db

(***************************************************************************)
(* SpecReq: HTTP requests served concurrently by one node (the leader).    *)
(* A handler runs from one await to the next as one step; replicate(op)    *)
(* either fails, and nothing is applied, or the op is applied to the       *)
(* store, one op at a time.  A request that has its response is "done"     *)
(* with the response's status.                                             *)
(***************************************************************************)
ReqPermalinks == {"a", "b"}

\* The failures of replicate() that replication_error tells apart, and one
\* standing for every other MusterError.
MusterErrors == {"NotLeader", "NoQuorum", "Other"}

\* A replication_error that answers every failure with an internal error.
ReplicationErrorAlwaysInternal(e) == 500

\* replication_error: the status of the response for a failed replicate().
ReplicationError(e) ==
    CASE e = "NotLeader" -> 503
      [] e = "NoQuorum" -> 503
      [] OTHER -> 500

ReplicateErrors == {ReplicationError(e) : e \in MusterErrors}

ReqDone(status) == [pc |-> "done", status |-> status]
ReqAt(pc, op) == [pc |-> pc, op |-> op]

\* Texts a permalink field can carry besides a usable permalink.
BlankTexts == {"", " "}

\* str::trim on the texts the model uses.
Trim(t) == IF t \in BlankTexts THEN "" ELSE t

\* A multipart create form: whether it has a file part, and its permalink part.
CreateForms == [file : BOOLEAN, permalink : Opt(ReqPermalinks \cup BlankTexts)]

\* create_file's checks in their order: the status of the rejection, or 200
\* if the handler goes on to the upload.
CreateVerdict(d, form) ==
    IF ~form.file THEN 400
    ELSE IF form.permalink = None THEN 400
    ELSE IF Trim(Unwrap(form.permalink)) = "" THEN 400
    ELSE IF PermalinkExists(d, Unwrap(form.permalink)) THEN 409
    ELSE 200

\* update_file's checks in their order, for a request whose only field, if
\* any, is the permalink: the rejection's status, or 200 if it submits.
UpdateVerdict(d, id, permalink) ==
    IF permalink = None THEN 400
    ELSE IF GetFile(d, id) = None THEN 404
    ELSE IF Trim(Unwrap(permalink)) = "" THEN 400
    ELSE IF /\ Unwrap(permalink) # Unwrap(GetFile(d, id)).permalink
            /\ PermalinkExists(d, Unwrap(permalink))
         THEN 409
    ELSE 200

\* The id a WriteOp is about.
OpId(op) == IF op.type = "CreateFile" THEN op.file.id ELSE op.id

\* uuid::Uuid::new_v4(): an id nothing holds, no record, no blob and no
\* request in flight.
FreshIds ==
    {id \in Ids :
        /\ id \notin Live(db)
        /\ id \notin blobs
        /\ \A r \in Reqs :
              req[r].pc \in {"upload", "replicate", "cleanup", "fetch"}
                 => OpId(req[r].op) # id}

\* create_file up to the object store's put: the permalink check, then the
\* record's id.
CreateCheck(r, permalink) ==
    /\ req[r].pc = "idle"
    /\ IF PermalinkExists(db, permalink)
       THEN req' = [req EXCEPT ![r] = ReqDone(409)]
       ELSE \E id \in FreshIds :
               req' = [req EXCEPT ![r] =
                          ReqAt("upload",
                                CreateFileOp(NewRecord(id, MimeOf(id), permalink, 0,
                                                       None, None, None, None, None)))]
    /\ UNCHANGED <<db, blobs, replVars, txnVars, storeVars>>

\* Mutant: create_file goes on to replicate whether or not the put succeeded.
CreateUploadIgnoresFailure(r, ok) ==
    /\ req[r].pc = "upload"
    /\ blobs' = IF ok THEN blobs \cup {req[r].op.file.id} ELSE blobs
    /\ req' = [req EXCEPT ![r] = ReqAt("replicate", req[r].op)]
    /\ UNCHANGED <<db, replVars, txnVars, storeVars>>

\* object_store.put(id, bytes) succeeds or fails.
CreateUpload(r, ok) ==
    /\ req[r].pc = "upload"
    /\ IF ok
       THEN /\ blobs' = blobs \cup {req[r].op.file.id}
            /\ req' = [req EXCEPT ![r] = ReqAt("replicate", req[r].op)]
       ELSE /\ blobs' = blobs
            /\ req' = [req EXCEPT ![r] = ReqDone(500)]
    /\ UNCHANGED <<db, replVars, txnVars, storeVars>>

\* Mutant: the record is written although replicate failed.
CreateReplicateKeepsRecord(r, status, cleaned) ==
    /\ req[r].pc = "replicate"
    /\ req[r].op.type = "CreateFile"
    /\ db' = Apply(db, req[r].op, 0)
    /\ blobs' = IF status # 200 /\ cleaned THEN blobs \ {req[r].op.file.id} ELSE blobs
    /\ req' = [req EXCEPT ![r] = ReqDone(status)]
    /\ UNCHANGED <<replVars, txnVars, storeVars>>

\* replicate(CreateFile): applied, or failed and the blob is deleted, best
\* effort (cleaned says whether object_store.delete succeeded).
CreateReplicate(r, status, cleaned) ==
    /\ req[r].pc = "replicate"
    /\ req[r].op.type = "CreateFile"
    /\ IF status = 200
       THEN /\ db' = Apply(db, req[r].op, 0)
            /\ blobs' = blobs
       ELSE /\ db' = db
            /\ blobs' = IF cleaned THEN blobs \ {req[r].op.file.id} ELSE blobs
    /\ req' = [req EXCEPT ![r] = ReqDone(status)]
    /\ UNCHANGED <<replVars, txnVars, storeVars>>

\* update_file up to replicate: at least one field, the record exists, the
\* new permalink is the record's own or is free.
UpdateCheck(r, id, permalink) ==
    /\ req[r].pc = "idle"
    /\ req' = [req EXCEPT ![r] =
          IF permalink = None THEN ReqDone(400)
          ELSE IF GetFile(db, id) = None THEN ReqDone(404)
          ELSE IF /\ Unwrap(permalink) # Unwrap(GetFile(db, id)).permalink
                  /\ PermalinkExists(db, Unwrap(permalink))
               THEN ReqDone(409)
          ELSE ReqAt("replicate",
                     UpdateFileOp(id, PatchFrom(None), PatchFrom(None),
                                  PatchFrom(None), PatchFrom(None), permalink,
                                  PatchFrom(None)))]
    /\ UNCHANGED <<db, blobs, replVars, txnVars, storeVars>>

\* replicate(UpdateFile), then the record is read back for the response.
UpdateReplicate(r, status) ==
    /\ req[r].pc = "replicate"
    /\ req[r].op.type = "UpdateFile"
    /\ IF status = 200
       THEN /\ db' = Apply(db, req[r].op, 0)
            /\ req' = [req EXCEPT ![r] =
                          IF GetFile(db', req[r].op.id) = None THEN ReqDone(500)
                          ELSE ReqDone(200)]
       ELSE /\ db' = db
            /\ req' = [req EXCEPT ![r] = ReqDone(status)]
    /\ UNCHANGED <<blobs, replVars, txnVars, storeVars>>

\* A delete_file that submits DeleteFile without looking the record up.
DeleteCheckSkipsLookup(r, id) ==
    /\ req[r].pc = "idle"
    /\ req' = [req EXCEPT ![r] = ReqAt("replicate", DeleteFileOp(id))]
    /\ UNCHANGED <<db, blobs, replVars, txnVars, storeVars>>

\* delete_file up to replicate: the record exists.
DeleteCheck(r, id) ==
    /\ req[r].pc = "idle"
    /\ req' = [req EXCEPT ![r] =
          IF GetFile(db, id) = None THEN ReqDone(404)
          ELSE ReqAt("replicate", DeleteFileOp(id))]
    /\ UNCHANGED <<db, blobs, replVars, txnVars, storeVars>>

DeleteReplicate(r, status) ==
    /\ req[r].pc = "replicate"
    /\ req[r].op.type = "DeleteFile"
    /\ IF status = 200
       THEN /\ db' = Apply(db, req[r].op, 0)
            /\ req' = [req EXCEPT ![r] = ReqAt("cleanup", req[r].op)]
       ELSE /\ db' = db
            /\ req' = [req EXCEPT ![r] = ReqDone(status)]
    /\ UNCHANGED <<blobs, replVars, txnVars, storeVars>>

\* A delete_file whose blob delete failure would fail the request.
DeleteCleanupPropagates(r, ok) ==
    /\ req[r].pc = "cleanup"
    /\ blobs' = IF ok THEN blobs \ {req[r].op.id} ELSE blobs
    /\ req' = [req EXCEPT ![r] = IF ok THEN ReqDone(200) ELSE ReqDone(500)]
    /\ UNCHANGED <<db, replVars, txnVars, storeVars>>

\* object_store.delete(id), best effort: a failure is only logged.
DeleteCleanup(r, ok) ==
    /\ req[r].pc = "cleanup"
    /\ blobs' = IF ok THEN blobs \ {req[r].op.id} ELSE blobs
    /\ req' = [req EXCEPT ![r] = ReqDone(200)]
    /\ UNCHANGED <<db, replVars, txnVars, storeVars>>

\* create_file rejecting a form without a file, without a permalink or with
\* a blank permalink.
CreateRejected(r, form) ==
    /\ req[r].pc = "idle"
    /\ CreateVerdict(db, form) = 400
    /\ req' = [req EXCEPT ![r] = ReqDone(400)]
    /\ UNCHANGED <<db, blobs, replVars, txnVars, storeVars>>

\* update_file on a request whose permalink is blank.
UpdateBlank(r, id, permalink) ==
    /\ req[r].pc = "idle"
    /\ req' = [req EXCEPT ![r] = ReqDone(UpdateVerdict(db, id, Some(permalink)))]
    /\ UNCHANGED <<db, blobs, replVars, txnVars, storeVars>>

\* serve_static up to the object store: the record of the permalink.
ServeLookup(r, permalink) ==
    /\ req[r].pc = "idle"
    /\ req' = [req EXCEPT ![r] =
          IF GetFileByPermalink(db, permalink) = None THEN ReqDone(404)
          ELSE ReqAt("fetch",
                     [type |-> "Serve",
                      id |-> Unwrap(GetFileByPermalink(db, permalink)).id])]
    /\ UNCHANGED <<db, blobs, replVars, txnVars, storeVars>>

\* A serve_static that answers 200 whether or not the blob is there.
ServeFetchIgnoresMissing(r) ==
    /\ req[r].pc = "fetch"
    /\ req' = [req EXCEPT ![r] =
                  [pc |-> "done", status |-> 200, body |-> req[r].op.id]]
    /\ UNCHANGED <<db, blobs, replVars, txnVars, storeVars>>

\* object_store.get(file.id): the bytes stored under the id are the body of
\* the response; NotFound is answered 404.
ServeFetch(r) ==
    /\ req[r].pc = "fetch"
    /\ req' = [req EXCEPT ![r] =
          IF req[r].op.id \in blobs
          THEN [pc |-> "done", status |-> 200, body |-> req[r].op.id]
          ELSE ReqDone(404)]
    /\ UNCHANGED <<db, blobs, replVars, txnVars, storeVars>>

\* The response is sent; the connection takes its next request.
Respond(r) ==
    /\ req[r].pc = "done"
    /\ req' = [req EXCEPT ![r] = ReqIdle]
    /\ UNCHANGED <<db, blobs, replVars, txnVars, storeVars>>

NextReq ==
    \E r \in Reqs :
        \/ \E permalink \in ReqPermalinks : CreateCheck(r, permalink)
        \/ \E ok \in BOOLEAN : CreateUpload(r, ok)
        \/ \E status \in {200} \cup ReplicateErrors, cleaned \in BOOLEAN :
              CreateReplicate(r, status, cleaned)
        \/ \E id \in Ids, permalink \in Opt(ReqPermalinks) : UpdateCheck(r, id, permalink)
        \/ \E status \in {200} \cup ReplicateErrors : UpdateReplicate(r, status)
        \/ \E id \in Ids : DeleteCheck(r, id)
        \/ \E status \in {200} \cup ReplicateErrors : DeleteReplicate(r, status)
        \/ \E ok \in BOOLEAN : DeleteCleanup(r, ok)
        \/ Respond(r)
        \/ \E form \in CreateForms : CreateRejected(r, form)
        \/ \E permalink \in ReqPermalinks : ServeLookup(r, permalink)
        \/ ServeFetch(r)
        \/ \E id \in Ids, permalink \in BlankTexts : UpdateBlank(r, id, permalink)

SpecReq == Init /\ [][NextReq]_vars

(***************************************************************************)
(* C3: in every committed state reached by interleaved create, update and  *)
(* delete requests, each checking its permalink against the local index    *)
(* before it submits its op, no two live records hold the same permalink.  *)
(***************************************************************************)
C3_PermalinkUnique ==
    \A i, j \in Live(db) :
        i # j => db.files[i].permalink # db.files[j].permalink

(***************************************************************************)
(* C11: an update that omits subjectId leaves the whole SubjectIndex       *)
(* unchanged and one that omits permalink leaves the whole PermalinkIndex  *)
(* unchanged; an update with subjectId = Null on a live record whose       *)
(* subjectId is s takes the id out of s's list, keeping the other ids      *)
(* (the key goes if the list is empty), touches no other key, and sets the *)
(* record's subjectId to none.                                             *)
(***************************************************************************)
\* A subject's id list, empty if the key is absent.
ListOf(d, s) == IF s \in DOMAIN d.subjects THEN d.subjects[s] ELSE <<>>

C11_OmittedAndNullSubject ==
    \A call \in RepoUpdates :
        LET F == UpdateFile(db, call)
        IN /\ call.subject_id = None => F.db.subjects = db.subjects
           /\ call.permalink = None => F.db.permalinks = db.permalinks
           /\ (/\ call.subject_id = Some(None)
               /\ call.id \in Live(db)
               /\ IsSome(db.files[call.id].subject_id)) =>
                 LET s == Unwrap(db.files[call.id].subject_id)
                 IN /\ F.db.files[call.id].subject_id = None
                    /\ ListOf(F.db, s) = Retain(ListOf(db, s), call.id)
                    /\ s \in DOMAIN F.db.subjects => F.db.subjects[s] # <<>>
                    /\ \A o \in Subjects \ {s} :
                          TGet(F.db.subjects, o) = TGet(db.subjects, o)

\* Both records are live under one subject and the index is exact: clearing
\* one record's subject must keep the other's id, and an update without
\* subjectId or permalink has index entries it could disturb.
C11_Witness ==
    /\ Live(db) = Ids
    /\ SubjectIndexExact(db)
    /\ PermalinkIndexExact(db)
    /\ \E s \in Subjects : IdSet(ListOf(db, s)) = Ids
    /\ \E call \in RepoUpdates :
          /\ call.subject_id = Some(None)
          /\ UpdateFile(db, call).ret

(***************************************************************************)
(* C12: right after put(r) commits, get(r.id) returns a record equal to r  *)
(* in every field and getByPermalink(r.permalink) returns the same record. *)
(***************************************************************************)
C12_PutThenGet ==
    \A r \in RepoRecords :
        LET d == PutFile(db, r)
        IN /\ GetFile(d, r.id) = Some(r)
           /\ GetFileByPermalink(d, r.permalink) = Some(r)

\* A put has just given both lookups of a record while the other record is
\* live under a permalink of its own.
C12_Witness ==
    /\ Live(db) = Ids
    /\ PermalinkIndexExact(db)
    /\ \E r \in RepoRecords :
          /\ IsSome(r.subject_id)
          /\ GetFile(db, r.id) = Some(r)
          /\ GetFileByPermalink(db, r.permalink) = Some(r)
          /\ PutFile(db, r) = db

(***************************************************************************)
(* C13: delete(id) on a live record returns true, and then get(id) and     *)
(* getByPermalink of the record's permalink return none; delete(id) on an  *)
(* id that is not live, a second delete of the same id included, returns   *)
(* false and leaves the three tables as they were.                         *)
(***************************************************************************)
C13_DeleteThenGet ==
    \A id \in Ids :
        LET F == DeleteFile(db, id)
            G == DeleteFile(F.db, id)
        IN /\ id \in Live(db) =>
                 /\ F.ret
                 /\ GetFile(F.db, id) = None
                 /\ GetFileByPermalink(F.db, db.files[id].permalink) = None
           /\ id \notin Live(db) => (~F.ret /\ F.db = db)
           /\ ~G.ret /\ G.db = F.db

\* One record is live, with a subject, and the other id is not: both cases
\* of delete have something to act on.
C13_Witness ==
    /\ Cardinality(Live(db)) = 1
    /\ PermalinkIndexExact(db)
    /\ SubjectIndexExact(db)
    /\ \E id \in Live(db) :
          /\ IsSome(db.files[id].subject_id)
          /\ DeleteFile(db, id).ret
          /\ DeleteFile(db, id).db = EmptyDb

(***************************************************************************)
(* C14: delete(id) of a live record whose subjectId is s takes exactly     *)
(* that id out of the list under s and keeps every other id of it; if the  *)
(* list becomes empty the key s is removed, and getBySubject(s) returns    *)
(* the empty sequence.                                                     *)
(***************************************************************************)
C14_DeleteCleansSubject ==
    \A id \in Live(db) :
        IsSome(db.files[id].subject_id) =>
            LET s == Unwrap(db.files[id].subject_id)
                d == DeleteFile(db, id).db
            IN /\ ListOf(d, s) = Retain(ListOf(db, s), id)
               /\ ~InSubject(d, s, id)
               /\ IdSet(ListOf(d, s)) = IdSet(ListOf(db, s)) \ {id}
               /\ Retain(ListOf(db, s), id) = <<>> =>
                     /\ s \notin DOMAIN d.subjects
                     /\ GetFilesBySubject(d, s) = <<>>

\* Two records are live under one subject and the index is exact: deleting
\* either must keep the other in the list.
C14_Witness ==
    /\ Live(db) = Ids
    /\ SubjectIndexExact(db)
    /\ \E s \in Subjects : IdSet(ListOf(db, s)) = Ids
    /\ \A id \in Ids : DeleteFile(db, id).db.subjects # EmptyTable

(***************************************************************************)
(* C15: permalinkExists(p) becomes true once a record with permalink p has *)
(* been put, stays true while that record is live with permalink p, and is *)
(* false again after that record is deleted or its permalink is changed    *)
(* away from p.                                                            *)
(***************************************************************************)
C15_PermalinkExistsTracks ==
    \A p \in Permalinks :
        /\ \A r \in RepoRecords :
              r.permalink = p => PermalinkExists(PutFile(db, r), p)
        /\ \A id \in Live(db) :
              db.files[id].permalink = p =>
                  /\ PermalinkExists(db, p)
                  /\ ~PermalinkExists(DeleteFile(db, id).db, p)
        /\ \A call \in RepoUpdates :
              (/\ call.id \in Live(db)
               /\ db.files[call.id].permalink = p
               /\ IsSome(call.permalink)
               /\ Unwrap(call.permalink) # p) =>
                  ~PermalinkExists(UpdateFile(db, call).db, p)

(***************************************************************************)
(* C16: update(id, ...) for an id that is not live returns false and       *)
(* leaves the three tables as they were, whatever patches are given, a     *)
(* permalink or a subjectId value included: no record and no index entry   *)
(* is created.                                                             *)
(***************************************************************************)
C16_UpdateMissingIsNoOp ==
    \A call \in RepoUpdates :
        call.id \notin Live(db) =>
            /\ ~UpdateFile(db, call).ret
            /\ UpdateFile(db, call).db = db

\* One record is live and the other id is not; an update of the missing id
\* carries a free permalink and a subject.
C16_Witness ==
    /\ Cardinality(Live(db)) = 1
    /\ PermalinkIndexExact(db)
    /\ SubjectIndexExact(db)
    /\ \E call \in RepoUpdates :
          /\ call.id \notin Live(db)
          /\ IsSome(call.permalink)
          /\ ~PermalinkExists(db, Unwrap(call.permalink))
          /\ IsSome(call.subject_id)
          /\ IsSome(Unwrap(call.subject_id))
          /\ ~UpdateFile(db, call).ret

(***************************************************************************)
(* C17: put is idempotent: put(r) twice in a row leaves the three tables   *)
(* as put(r) once does; and after any sequence of put, update and delete   *)
(* no id occurs more than once in the id list under any SubjectIndex key.  *)
(***************************************************************************)
NoDuplicates(seq) ==
    \A i, j \in 1..Len(seq) : i # j => seq[i] # seq[j]

C17_PutIdempotent ==
    /\ \A s \in DOMAIN db.subjects : NoDuplicates(db.subjects[s])
    /\ \A r \in RepoRecords : PutFile(PutFile(db, r), r) = PutFile(db, r)

\* Both records are live under one subject, so its list has two ids, and a
\* record with a subject is put on a store that does not hold it yet.
C17_Witness ==
    /\ Live(db) = Ids
    /\ \E s \in Subjects :
          /\ Len(ListOf(db, s)) = Cardinality(Ids)
          /\ \A id \in Ids : db.files[id].subject_id = Some(s)
    /\ \E r \in RepoRecords :
          /\ IsSome(r.subject_id)
          /\ PutFile(db, r) # db

(***************************************************************************)
(* C18: update never changes a record's id, mimeType, fileType, byteSize   *)
(* or createdAt: for every live record and every UpdateFile op the five    *)
(* fields are the same after the update as before it.                      *)
(***************************************************************************)
ImmutableFields == {"id", "mime_type", "file_type", "byte_size", "created_at"}

\* UpdateFile ops on the record: every patch of the optional fields, and
\* every permalink with every subject patch.
ImmutableUpdates ==
    PatchUpdates
    \cup {UpdateFileOp(PatchId, PatchAbsent, PatchAbsent, PatchAbsent, PatchAbsent,
                       Some(p), s) : p \in Permalinks, s \in Patches(Subjects)}

C18_UpdateKeepsSystemFields ==
    \A op \in ImmutableUpdates, now \in Times :
        op.id \in Live(db) =>
            LET after == Apply(db, op, now)
            IN /\ op.id \in Live(after)
               /\ \A f \in ImmutableFields :
                     after.files[op.id][f] = db.files[op.id][f]

\* The record was created at one time and updated at another: createdAt
\* and updatedAt differ, and the file type is the one from_mime gave.
C18_Witness ==
    /\ PatchId \in Live(db)
    /\ db.files[PatchId].created_at = 0
    /\ db.files[PatchId].updated_at = MaxClock
    /\ db.files[PatchId].file_type = FromMime(db.files[PatchId].mime_type)

(***************************************************************************)
(* C19: every update that returns true sets the record's updatedAt to the  *)
(* current time of the node running it, also when every patch is Absent or *)
(* changes nothing; an update that returns false changes no record's       *)
(* updatedAt.                                                              *)
(***************************************************************************)
AllAbsentUpdate ==
    UpdateFileOp(PatchId, PatchAbsent, PatchAbsent, PatchAbsent, PatchAbsent,
                 None, PatchAbsent)

C19_UpdateStampsUpdatedAt ==
    \A op \in ImmutableUpdates, now \in Times :
        LET F == RunCall(db, CallOf(op, now))
        IN /\ F.ret <=> op.id \in Live(db)
           /\ F.ret => F.db.files[op.id].updated_at = now
           /\ ~F.ret =>
                 /\ Live(F.db) = Live(db)
                 /\ \A id \in Live(db) :
                       F.db.files[id].updated_at = db.files[id].updated_at

\* A live record last stamped at the latest clock reading: an update with
\* no patch at all, run when the clock reads 0, returns true and restamps it.
C19_Witness ==
    /\ PatchId \in Live(db)
    /\ db.files[PatchId].updated_at = MaxClock
    /\ AllAbsentUpdate \in ImmutableUpdates
    /\ RunCall(db, CallOf(AllAbsentUpdate, 0)).ret
    /\ RunCall(db, CallOf(AllAbsentUpdate, 0)).db.files[PatchId].updated_at = 0

(***************************************************************************)
(* C20: in every state reached by put, update and delete, list(fileType?,  *)
(* subjectId?) returns exactly the live records that match every given     *)
(* filter, the same set as filtering listAll(); with no filter it returns  *)
(* all live records.                                                       *)
(***************************************************************************)
FileTypeNames == {"audio", "document", "image"}

Matches(f, file_type, subject_id) ==
    /\ IsSome(file_type) => f.file_type = Unwrap(file_type)
    /\ IsSome(subject_id) => f.subject_id = subject_id

C20_ListMatchesFilters ==
    \A file_type \in Opt(FileTypeNames), subject_id \in Opt(Subjects) :
        LET listed == ListFiles(db, file_type, subject_id)
        IN /\ {listed[i] : i \in 1..Len(listed)} =
                  {db.files[id] : id \in {i \in Live(db) :
                                      Matches(db.files[i], file_type, subject_id)}}
           /\ listed = SelectSeq(listed, LAMBDA f : Matches(f, file_type, subject_id))

(***************************************************************************)
(* C21: purgeAll, from any reachable state, leaves the primary table, the  *)
(* PermalinkIndex and the SubjectIndex all empty, in one atomic step (the  *)
(* commit of its transaction takes the committed tables to empty at once), *)
(* and returns the number of records the primary table held before it.     *)
(***************************************************************************)
C21_PurgeAllEmpties ==
    /\ [](/\ PurgeAll(db).db = EmptyDb
          /\ PurgeAll(db).count = Cardinality(Live(db)))
    /\ [][\A t \in Threads :
             (/\ thread[t] = "write"
              /\ Unwrap(txn[t]).call.op = "purge"
              /\ thread'[t] = "ok") =>
                 /\ db' = EmptyDb
                 /\ Unwrap(txn[t]).F.count = Cardinality(Live(db))]_vars

\* A purge is about to commit on a store holding both records, both index
\* entries and a subject list; its own tables are already empty.
C21_Witness ==
    /\ Live(db) = Ids
    /\ DOMAIN db.permalinks # {}
    /\ DOMAIN db.subjects # {}
    /\ \E t \in Threads :
          /\ thread[t] = "write"
          /\ Unwrap(txn[t]).call.op = "purge"
          /\ Unwrap(txn[t]).pc = TxnLen(t) + 1
          /\ Unwrap(txn[t]).F.db = EmptyDb

(***************************************************************************)
(* C22: blob/metadata ordering.  A CreateFile op is submitted only after   *)
(* the blob put for its id has succeeded; a blob is deleted only after the *)
(* DeleteFile op for its id was replicated, or as compensation for a       *)
(* failed CreateFile; hence every live record created through the create   *)
(* request has a blob under its id.                                        *)
(***************************************************************************)
\* Request r is about to submit op type ty.
Submitting(r, ty) == req[r].pc = "replicate" /\ req[r].op.type = ty

C22_BlobBeforeMetadata ==
    /\ [](/\ \A id \in Live(db) : id \in blobs
          /\ \A r \in Reqs :
                Submitting(r, "CreateFile") => req[r].op.file.id \in blobs)
    /\ [][\A id \in blobs \ blobs' :
             \E r \in Reqs :
                \/ /\ req[r].pc = "cleanup"
                   /\ req[r].op.id = id
                   /\ id \notin Live(db)
                \/ /\ Submitting(r, "CreateFile")
                   /\ req[r].op.file.id = id
                   /\ req'[r].pc = "done"
                   /\ req'[r].status \in ReplicateErrors
                   /\ db' = db]_vars

\* One record is live with its blob, a delete request for it has been
\* replicated and is about to delete the blob of the other id, and a
\* create request holds an uploaded blob it has not submitted yet.
C22_Witness ==
    /\ Cardinality(Live(db)) = 1
    /\ blobs = Ids
    /\ \E r \in Reqs : req[r].pc = "cleanup" /\ req[r].op.id \in blobs

(***************************************************************************)
(* C23: when replicate(CreateFile) fails in a create request, the handler  *)
(* answers with the replication failure whether or not its one attempt to  *)
(* delete the uploaded blob succeeds, and leaves no record and no index    *)
(* entry for the new id; the blob is gone if the delete succeeded, and     *)
(* otherwise it is a blob that no record references.                       *)
(***************************************************************************)
\* No table of d mentions the id.
Unreferenced(d, id) ==
    /\ id \notin Live(d)
    /\ \A p \in DOMAIN d.permalinks : d.permalinks[p] # id
    /\ \A s \in DOMAIN d.subjects : ~Contains(d.subjects[s], id)

C23_FailedCreateCompensates ==
    [][\A r \in Reqs :
          (Submitting(r, "CreateFile") /\ req'[r] # req[r]) =>
              LET id == req[r].op.file.id
              IN /\ req'[r].pc = "done"
                 /\ req'[r].status \in {200} \cup ReplicateErrors
                 /\ req'[r].status # 200 =>
                       /\ db' = db
                       /\ Unreferenced(db', id)
                       /\ \E cleaned \in BOOLEAN :
                             blobs' = IF cleaned THEN blobs \ {id} ELSE blobs]_vars

\* A create request has uploaded its blob and is about to submit its op,
\* while another record is live with its own blob.
C23_Witness ==
    \E r \in Reqs :
        /\ Submitting(r, "CreateFile")
        /\ req[r].op.file.id \in blobs
        /\ Unreferenced(db, req[r].op.file.id)
        /\ Live(db) # {}
        /\ Live(db) \subseteq blobs

(***************************************************************************)
(* C24: a create request with no file, no permalink, a blank permalink or  *)
(* a permalink present in the PermalinkIndex, and an update request with   *)
(* no field, a blank permalink or a permalink held by another record, is   *)
(* rejected before any effect: no blob is put or deleted, no WriteOp is    *)
(* submitted and the three tables are unchanged.                           *)
(***************************************************************************)
\* Some live record other than id has the permalink.
HeldByAnother(d, id, permalink) ==
    \E other \in Live(d) \ {id} : d.files[other].permalink = permalink

C24_InvalidRequestRejected ==
    /\ [](/\ \A form \in CreateForms :
                (\/ ~form.file
                 \/ form.permalink = None
                 \/ Unwrap(form.permalink) \in BlankTexts
                 \/ PermalinkExists(db, Unwrap(form.permalink)))
                    => CreateVerdict(db, form) \in {400, 409}
          /\ \A id \in Live(db), permalink \in Opt(ReqPermalinks \cup BlankTexts) :
                (\/ permalink = None
                 \/ Unwrap(permalink) \in BlankTexts
                 \/ /\ Unwrap(permalink) # db.files[id].permalink
                    /\ HeldByAnother(db, id, Unwrap(permalink)))
                    => UpdateVerdict(db, id, permalink) \in {400, 409})
    /\ [][\A r \in Reqs :
             (req[r].pc = "idle" /\ req'[r].pc = "done") =>
                 (db' = db /\ blobs' = blobs)]_vars

(***************************************************************************)
(* C25: a delete request whose DeleteFile was replicated answers success   *)
(* whether the blob delete succeeds or fails: the failure is no error      *)
(* response and does not bring the metadata back.                          *)
(***************************************************************************)
C25_DeleteSucceedsDespiteBlob ==
    [][\A r \in Reqs :
          (req[r].pc = "cleanup" /\ req'[r] # req[r]) =>
              /\ req'[r] = ReqDone(200)
              /\ db' = db
              /\ req[r].op.id \notin Live(db')
              /\ blobs' \in {blobs, blobs \ {req[r].op.id}}]_vars

\* A DeleteFile has been replicated, nothing is live any more and the blob
\* of the deleted id is still to be removed.
C25_Witness ==
    \E r \in Reqs :
        /\ req[r].pc = "cleanup"
        /\ Live(db) = {}
        /\ req[r].op.id \in blobs

(***************************************************************************)
(* C26: a delete request for an id with no live record answers not-found   *)
(* without submitting a WriteOp and without touching the object store; a   *)
(* delete request whose replication fails answers the replication error    *)
(* and does not delete the blob.                                           *)
(***************************************************************************)
C26_DeleteNotFoundOrFailed ==
    [][\A r \in Reqs :
          /\ \A id \in Ids \ Live(db) :
                DeleteCheck(r, id) =>
                    /\ req'[r] = ReqDone(404)
                    /\ db' = db
                    /\ blobs' = blobs
          /\ (Submitting(r, "DeleteFile") /\ req'[r] # req[r]) =>
                /\ blobs' = blobs
                /\ \/ req'[r] = ReqAt("cleanup", req[r].op)
                   \/ /\ req'[r].pc = "done"
                      /\ req'[r].status \in ReplicateErrors
                      /\ db' = db]_vars

\* One request was answered not-found while another is submitting the
\* DeleteFile of a live record whose blob is in the object store.
C26_Witness ==
    \E r, q \in Reqs :
        /\ req[r] = ReqDone(404)
        /\ Submitting(q, "DeleteFile")
        /\ req[q].op.id \in Live(db) \cap blobs

(***************************************************************************)
(* C27: an update is metadata-only and re-validates permalink uniqueness:  *)
(* a request with the record's own permalink is accepted, a request with a *)
(* permalink that the PermalinkIndex has for a different record is         *)
(* rejected with conflict and submits nothing, and no update request puts  *)
(* or deletes a blob.                                                      *)
(***************************************************************************)
\* The PermalinkIndex has the permalink, for a record other than id.
IndexedForAnother(d, id, permalink) ==
    /\ permalink \in DOMAIN d.permalinks
    /\ d.permalinks[permalink] # id

C27_UpdateRevalidatesPermalink ==
    /\ [](\A id \in Live(db), permalink \in ReqPermalinks :
             /\ permalink = db.files[id].permalink
                   => UpdateVerdict(db, id, Some(permalink)) = 200
             /\ IndexedForAnother(db, id, permalink)
                   => UpdateVerdict(db, id, Some(permalink)) = 409)
    /\ [][\A r \in Reqs :
             /\ \A id \in Ids, permalink \in Opt(ReqPermalinks) :
                   UpdateCheck(r, id, permalink) =>
                       /\ db' = db
                       /\ blobs' = blobs
                       /\ req'[r].pc = "replicate"
                             <=> UpdateVerdict(db, id, permalink) = 200
                       /\ req'[r].pc = "done"
                             => req'[r].status = UpdateVerdict(db, id, permalink)
             /\ (Submitting(r, "UpdateFile") /\ req'[r] # req[r]) =>
                   blobs' = blobs]_vars

(***************************************************************************)
(* C28: a failed replication is answered by its kind: NotLeader and        *)
(* NoQuorum with the retryable 503, every other failure with 500; the      *)
(* handler does not write the tables itself: they change only by the       *)
(* apply of a submitted WriteOp, and not at all when replication fails.    *)
(***************************************************************************)
C28_ReplicationFailureMapped ==
    /\ [](/\ \A e \in {"NotLeader", "NoQuorum"} : ReplicationError(e) = 503
          /\ \A e \in MusterErrors \ {"NotLeader", "NoQuorum"} :
                ReplicationError(e) = 500)
    /\ [][/\ db' # db =>
                \E r \in Reqs :
                    /\ req[r].pc = "replicate"
                    /\ db' = Apply(db, req[r].op, 0)
          /\ \A r \in Reqs, e \in MusterErrors :
                (\/ CreateReplicate(r, ReplicationError(e), TRUE)
                 \/ CreateReplicate(r, ReplicationError(e), FALSE)
                 \/ UpdateReplicate(r, ReplicationError(e))
                 \/ DeleteReplicate(r, ReplicationError(e))) =>
                    /\ req'[r] = ReqDone(IF e \in {"NotLeader", "NoQuorum"}
                                         THEN 503 ELSE 500)
                    /\ db' = db]_vars

\* One request was answered 503 and the other 500 while a record is live
\* and a blob is left without a record.
C28_Witness ==
    /\ req["r1"] = ReqDone(503)
    /\ req["r2"] = ReqDone(500)
    /\ Live(db) # {}
    /\ blobs \ Live(db) # {}

(***************************************************************************)
(* state_machine.rs: what apply and restore return, given what the         *)
(* repository operations they call return ("ok" or "err").                 *)
(***************************************************************************)
\* An apply that drops the repository's result.
ApplyReturnIgnoresError(result) == "ok"

\* apply: `self.db.<op>(..)?; Ok(())`.
ApplyReturn(result) == IF result = "err" THEN "err" ELSE "ok"

\* restore: put_file(file)? for each record in turn, then Ok(()).
RECURSIVE RestoreReturn(_)
RestoreReturn(results) ==
    IF results = <<>> THEN "ok"
    ELSE IF ApplyReturn(Head(results)) = "err" THEN "err"
    ELSE RestoreReturn(Tail(results))

\* What the put_file calls of one restore return: the loop ends at the
\* first error.
RestoreRuns ==
    {results \in UNION {[1..n -> {"ok", "err"}] : n \in 0..Cardinality(Ids)} :
        \A i \in 1..(Len(results) - 1) : results[i] = "ok"}

(***************************************************************************)
(* C29: when the repository operation that apply calls (put, delete,       *)
(* update), or a put of restore, returns an error, apply or restore        *)
(* returns an error; apply returns Ok only if the repository transaction   *)
(* committed.                                                              *)
(***************************************************************************)
C29_ApplyPropagatesErrors ==
    /\ [](\A results \in RestoreRuns :
             RestoreReturn(results) = "err"
                <=> \E i \in 1..Len(results) : results[i] = "err")
    /\ [][\A t \in Threads :
             (thread'[t] # thread[t] /\ thread'[t] \in {"ok", "err"}) =>
                 /\ thread'[t] = "err" => ApplyReturn(thread'[t]) = "err"
                 /\ ApplyReturn(thread'[t]) = "ok" =>
                       /\ IsSome(txn[t])
                       /\ Unwrap(txn[t]).pc = TxnLen(t) + 1
                       /\ db' = Unwrap(txn[t]).F.db
                       /\ txn'[t] = None]_vars

\* One operation returned an error, its transaction dropped, while the
\* other one returned Ok and a record is committed.
C29_Witness ==
    \E t \in Threads :
        /\ thread[t] = "err"
        /\ txn[t] = None
        /\ Live(db) # {}
        /\ \E u \in Threads \ {t} : thread[u] = "ok"

(***************************************************************************)
(* C30: serving by permalink returns bytes only if the PermalinkIndex      *)
(* resolves the permalink to a live record of the serving node, and the    *)
(* bytes are those stored under that record's id; if the permalink does    *)
(* not resolve or the blob is missing the answer is not-found, without     *)
(* content.                                                                *)
(***************************************************************************)
C30_ServeByPermalink ==
    [][\A r \in Reqs :
          /\ \A permalink \in ReqPermalinks :
                ServeLookup(r, permalink) =>
                    IF /\ permalink \in DOMAIN db.permalinks
                       /\ db.permalinks[permalink] \in Live(db)
                    THEN /\ req'[r].pc = "fetch"
                         /\ req'[r].op.id = db.permalinks[permalink]
                    ELSE req'[r] = ReqDone(404)
          /\ (req[r].pc = "fetch" /\ req'[r] # req[r]) =>
                /\ db' = db
                /\ blobs' = blobs
                /\ IF req[r].op.id \in blobs
                   THEN req'[r] = [pc |-> "done", status |-> 200,
                                   body |-> req[r].op.id]
                   ELSE req'[r] = ReqDone(404)
          /\ (req'[r] # req[r] /\ "body" \in DOMAIN req'[r]) =>
                req[r].pc = "fetch"]_vars

\* A response carries the bytes stored under the id of a live record.
C30_Witness ==
    \E r \in Reqs :
        /\ "body" \in DOMAIN req[r]
        /\ req[r].body \in Live(db) \cap blobs

(***************************************************************************)
(* object_store/local.rs: the LocalStore, a directory with one file per    *)
(* key.  Each operation takes the directory's files (path -> bytes) and    *)
(* gives the files afterwards and what the call returns.  Keys are the     *)
(* plain names the service uses (UUIDs); I/O errors are left out.          *)
(***************************************************************************)
StoreKeys == Ids \cup {"key"}
StoreBytes == {"first", "second"}
BasePath == <<"base">>

\* object_path: base_path.join(key)
ObjectPath(key) == Append(BasePath, key)

\* Path::exists
PathExists(files, path) == path \in DOMAIN files

LocalPut(files, key, data) ==
    [fs |-> TInsert(files, ObjectPath(key), data), ret |-> [tag |-> "Ok"]]

\* A get that reads a path without looking whether it exists.
LocalGetUnchecked(files, key) ==
    [fs |-> files,
     ret |-> [tag |-> "Ok",
              value |-> IF PathExists(files, ObjectPath(key))
                        THEN files[ObjectPath(key)] ELSE ""]]

LocalGet(files, key) ==
    IF ~PathExists(files, ObjectPath(key))
    THEN [fs |-> files, ret |-> [tag |-> "NotFound", key |-> key]]
    ELSE [fs |-> files, ret |-> [tag |-> "Ok", value |-> files[ObjectPath(key)]]]

LocalDelete(files, key) ==
    IF PathExists(files, ObjectPath(key))
    THEN [fs |-> TRemove(files, ObjectPath(key)), ret |-> [tag |-> "Ok"]]
    ELSE [fs |-> files, ret |-> [tag |-> "Ok"]]

LocalExists(files, key) ==
    [fs |-> files,
     ret |-> [tag |-> "Ok", value |-> PathExists(files, ObjectPath(key))]]

(***************************************************************************)
(* SpecStore: any sequence of put, get, delete and exists on one           *)
(* LocalStore.  kv keeps, for each key, the bytes of its most recent put   *)
(* that no delete has followed.                                            *)
(***************************************************************************)
StorePut(key, data) ==
    /\ fs' = LocalPut(fs, key, data).fs
    /\ kv' = TInsert(kv, key, data)
    /\ out' = Some([op |-> "put", key |-> key, ret |-> LocalPut(fs, key, data).ret])
    /\ UNCHANGED <<db, replVars, txnVars, reqVars>>

StoreGet(key) ==
    /\ fs' = LocalGet(fs, key).fs
    /\ kv' = kv
    /\ out' = Some([op |-> "get", key |-> key, ret |-> LocalGet(fs, key).ret])
    /\ UNCHANGED <<db, replVars, txnVars, reqVars>>

StoreDelete(key) ==
    /\ fs' = LocalDelete(fs, key).fs
    /\ kv' = TRemove(kv, key)
    /\ out' = Some([op |-> "delete", key |-> key, ret |-> LocalDelete(fs, key).ret])
    /\ UNCHANGED <<db, replVars, txnVars, reqVars>>

StoreExists(key) ==
    /\ fs' = LocalExists(fs, key).fs
    /\ kv' = kv
    /\ out' = Some([op |-> "exists", key |-> key, ret |-> LocalExists(fs, key).ret])
    /\ UNCHANGED <<db, replVars, txnVars, reqVars>>

NextStore ==
    \E key \in StoreKeys :
        \/ \E data \in StoreBytes : StorePut(key, data)
        \/ StoreGet(key)
        \/ StoreDelete(key)
        \/ StoreExists(key)

SpecStore == Init /\ [][NextStore]_vars

(***************************************************************************)
(* C31: the LocalStore is a map from key to bytes: get(k) returns the      *)
(* bytes of the most recent put(k, b) that no delete(k) followed and       *)
(* NotFound otherwise, exists(k) is true exactly when there is such a put, *)
(* and delete(k) succeeds whether k is present (and removes it) or absent  *)
(* (and changes nothing).                                                  *)
(***************************************************************************)
C31_LocalStoreIsAMap ==
    /\ [](/\ \A key \in StoreKeys :
                /\ LocalGet(fs, key).ret =
                      IF key \in DOMAIN kv
                      THEN [tag |-> "Ok", value |-> kv[key]]
                      ELSE [tag |-> "NotFound", key |-> key]
                /\ LocalExists(fs, key).ret =
                      [tag |-> "Ok", value |-> key \in DOMAIN kv]
                /\ LocalDelete(fs, key).ret = [tag |-> "Ok"]
                /\ key \notin DOMAIN kv => LocalDelete(fs, key).fs = fs
          /\ IsSome(out) =>
                /\ Unwrap(out).ret.tag \in {"Ok", "NotFound"}
                /\ Unwrap(out).op \in {"put", "delete"} =>
                      Unwrap(out).ret = [tag |-> "Ok"])
    /\ [][IsSome(out') =>
             /\ Unwrap(out').op = "delete" =>
                   /\ Unwrap(out').key \notin DOMAIN kv'
                   /\ ObjectPath(Unwrap(out').key) \notin DOMAIN fs'
                   /\ \A other \in StoreKeys \ {Unwrap(out').key} :
                         LocalGet(fs', other).ret = LocalGet(fs, other).ret
             /\ Unwrap(out').op \in {"get", "exists"} => fs' = fs]_vars

\* A key was put twice and is deleted now, next to a key that was never put
\* and one that holds its bytes.
C31_Witness ==
    /\ IsSome(out)
    /\ Unwrap(out).op = "delete"
    /\ Unwrap(out).key \notin DOMAIN kv
    /\ \E key \in StoreKeys : key \in DOMAIN kv /\ kv[key] = "second"
    /\ Cardinality(DOMAIN kv) = 1

(***************************************************************************)
(* C32: restore(snapshot) fast-forwards a replica whatever it held: after  *)
(* restore on a store that already has records, its live records, its      *)
(* PermalinkIndex and its SubjectIndex are those of the snapshotted state, *)
(* so that records and index entries that are not in the snapshot are      *)
(* gone.                                                                   *)
(***************************************************************************)
\* The members of each id list of a SubjectIndex, by key.
SubjectMembers(d) == [s \in DOMAIN d.subjects |-> IdSet(d.subjects[s])]

C32_RestoreFastForwards ==
    step = "catchup" =>
        /\ Live(replica["n2"]) = Live(replica["n1"])
        /\ \A id \in Live(replica["n1"]) :
              replica["n2"].files[id] = replica["n1"].files[id]
        /\ replica["n2"].permalinks = replica["n1"].permalinks
        /\ SubjectMembers(replica["n2"]) = SubjectMembers(replica["n1"])

(***************************************************************************)
(* C33: delete(id) and update(id, permalink = p) remove a PermalinkIndex   *)
(* entry only when it maps to id: in every reachable state, also after two *)
(* requests that both passed the permalink check, every live record other  *)
(* than the one operated on that getByPermalink resolved before the        *)
(* operation is still resolved after it.                                   *)
(***************************************************************************)
\* The live records other than id that some permalink resolves to.
ResolvedOthers(d, id) ==
    {<<p, other>> \in Permalinks \X (Live(d) \ {id}) :
        /\ IsSome(GetFileByPermalink(d, p))
        /\ Unwrap(GetFileByPermalink(d, p)).id = other}

C33_OthersStayResolvable ==
    \A id \in Live(db) :
        /\ ResolvedOthers(db, id) \subseteq ResolvedOthers(DeleteFile(db, id).db, id)
        /\ \A p \in Permalinks :
              ResolvedOthers(db, id) \subseteq
                 ResolvedOthers(UpdateFile(db, UpdateCall(id, None, None, None,
                                                          None, Some(p), None,
                                                          0)).db, id)

(***************************************************************************)
(* C34: put does not reject a permalink collision: put(r) with a permalink *)
(* held by a live record of another id succeeds, points the PermalinkIndex *)
(* entry of that permalink to r.id and leaves the other record live and    *)
(* unchanged in the primary table.                                         *)
(***************************************************************************)
C34_PutTakesOverPermalink ==
    \A file \in RepoRecords : \A other \in Live(db) \ {file.id} :
        db.files[other].permalink = file.permalink =>
            LET after == PutFile(db, file)
            IN /\ file.id \in Live(after)
               /\ after.files[file.id] = file
               /\ TGet(after.permalinks, file.permalink) = Some(file.id)
               /\ other \in Live(after)
               /\ after.files[other] = db.files[other]

\* Both records hold permalink "c"; the index resolves it to the one put last.
C34_Witness ==
    /\ Live(db) = Ids
    /\ \A id \in Ids : db.files[id].permalink = "c"
    /\ db.permalinks = [p \in {"c"} |-> IdOrder[1]]
    /\ db.subjects = EmptyTable

(***************************************************************************)
(* C35: an update whose subjectId patch is Value(s), s being the record's  *)
(* current subjectId, does not edit the SubjectIndex: the id list under s  *)
(* (members and order, hence the order of getBySubject(s)) and every other *)
(* key are the same after the update as before.                            *)
(***************************************************************************)
\* update(id) with the subjectId patch Value(s) and nothing else.
SameSubjectUpdate(d, id, s) ==
    UpdateFile(d, UpdateCall(id, None, None, None, None, None, Some(Some(s)), 0)).db

C35_SameSubjectKeepsIndex ==
    \A id \in Live(db), s \in Subjects :
        db.files[id].subject_id = Some(s) =>
            /\ SameSubjectUpdate(db, id, s).subjects = db.subjects
            /\ GetFilesBySubject(SameSubjectUpdate(db, id, s), s)
                  = GetFilesBySubject(db, s)

(***************************************************************************)
(* C36: if the record is deleted after an update request passed its        *)
(* existence check and before its UpdateFile is applied, the UpdateFile is *)
(* applied as a no-op: the record stays deleted, no index entry for it is  *)
(* created again, also when the update carries a permalink or a subjectId, *)
(* and the update request ends in an error response.                       *)
(***************************************************************************)
C36_UpdateAfterDeleteIsNoOp ==
    /\ [](\A r \in Reqs :
             (Submitting(r, "UpdateFile") /\ req[r].op.id \notin Live(db)) =>
                 \A s \in Patches(Subjects) :
                     Apply(db, [req[r].op EXCEPT !.subject_id = s], 0) = db)
    /\ [][\A r \in Reqs :
             (/\ Submitting(r, "UpdateFile")
              /\ req[r].op.id \notin Live(db)
              /\ req'[r] # req[r]) =>
                 /\ db' = db
                 /\ req'[r].pc = "done"
                 /\ req'[r].status \in {500, 503}]_vars

\* An update request passed its checks and the record's DeleteFile was
\* applied since: the delete request is at its blob cleanup.
C36_Witness ==
    \E r, q \in Reqs :
        /\ Submitting(r, "UpdateFile")
        /\ req[r].op.id \notin Live(db)
        /\ req[q].pc = "cleanup"
        /\ req[q].op.id = req[r].op.id

(***************************************************************************)
(* C37: two delete requests for the same live id that run concurrently     *)
(* (both can pass the existence check before either DeleteFile is applied) *)
(* both complete without a storage error; afterwards the record, its       *)
(* PermalinkIndex entry, its SubjectIndex membership and its blob are      *)
(* absent and every other record, index entry and blob is unchanged.       *)
(***************************************************************************)
\* The PermalinkIndex without the entries that map to id.
PermalinksWithout(d, id) ==
    [p \in {q \in DOMAIN d.permalinks : d.permalinks[q] # id} |-> d.permalinks[p]]

\* Another request is deleting the id that request r deletes.
ConcurrentDelete(r) ==
    \E q \in Reqs \ {r} :
        /\ req[q].pc \in {"replicate", "cleanup"}
        /\ req[q].op.type = "DeleteFile"
        /\ req[q].op.id = req[r].op.id

C37_ConcurrentDeletes ==
    [][\A r \in Reqs :
          /\ (/\ Submitting(r, "DeleteFile")
              /\ ConcurrentDelete(r)
              /\ req'[r].pc = "cleanup") =>
                LET id == req[r].op.id
                IN /\ id \notin Live(db')
                   /\ db'.files = TRemove(db.files, id)
                   /\ db'.permalinks = PermalinksWithout(db, id)
                   /\ \A s \in DOMAIN db'.subjects : id \notin IdSet(db'.subjects[s])
                   /\ id \notin Live(db) => db' = db
                   /\ blobs' = blobs
          /\ (req[r].pc = "cleanup" /\ ConcurrentDelete(r) /\ req'[r] # req[r]) =>
                /\ req'[r] = ReqDone(200)
                /\ db' = db
                /\ blobs' \in {blobs, blobs \ {req[r].op.id}}
          /\ DeleteCleanup(r, TRUE) => blobs' = blobs \ {req[r].op.id}]_vars

(***************************************************************************)
(* C38: apply of DeleteFile{id} or of UpdateFile{id, ...} for an id that   *)
(* is not live returns Ok and leaves the three tables unchanged: replaying *)
(* a DeleteFile that was applied is harmless, and an UpdateFile ordered    *)
(* after the DeleteFile of its id has no effect.                           *)
(***************************************************************************)
C38_ApplyOnMissingIsNoOp ==
    /\ \A op \in ReplDeletes \cup ReplUpdates, now \in Times :
          op.id \notin Live(db) =>
              /\ Apply(db, op, now) = db
              /\ RunCall(db, CallOf(op, now)).ret = FALSE
              /\ ApplyReturn("ok") = "ok"
    /\ \A id \in Ids :
          LET deleted == Apply(db, DeleteFileOp(id), 0)
          IN /\ Apply(deleted, DeleteFileOp(id), 0) = deleted
             /\ \A op \in ReplUpdates :
                   op.id = id => Apply(deleted, op, 0) = deleted

\* The first id is not live, the second is, with a permalink and a subject
\* that the indexes hold exactly.
C38_Witness ==
    /\ Live(db) = {IdOrder[2]}
    /\ db.files[IdOrder[2]].permalink = "b"
    /\ db.files[IdOrder[2]].subject_id = Some("u2")
    /\ db.permalinks = [p \in {"b"} |-> IdOrder[2]]
    /\ db.subjects = [s \in {"u2"} |-> <<IdOrder[2]>>]

(***************************************************************************)
(* C39: the read paths tolerate dangling index entries: getByPermalink(p)  *)
(* returns none when p is not in the PermalinkIndex or when the id it maps *)
(* to is not in the primary table, and getBySubject(s) returns exactly the *)
(* records of the ids of s's list that are in the primary table, in list   *)
(* order, skipping the others.                                             *)
(***************************************************************************)
\* The ids of s's list that are in the primary table, in list order.
PresentIds(d, s) ==
    SelectSeq(IF s \in DOMAIN d.subjects THEN d.subjects[s] ELSE <<>>,
              LAMBDA id : id \in Live(d))

C39_ReadsSkipDangling ==
    /\ \A p \in Permalinks :
          GetFileByPermalink(db, p) =
             IF p \in DOMAIN db.permalinks /\ db.permalinks[p] \in Live(db)
             THEN Some(db.files[db.permalinks[p]])
             ELSE None
    /\ \A s \in Subjects :
          GetFilesBySubject(db, s) =
             [i \in 1..Len(PresentIds(db, s)) |-> db.files[PresentIds(db, s)[i]]]

\* A permalink maps to an id that is not in the primary table, and a
\* subject's list has such an id before one that is.
C39_Witness ==
    /\ \E p \in DOMAIN db.permalinks : db.permalinks[p] \notin Live(db)
    /\ \E s \in DOMAIN db.subjects :
          /\ Len(db.subjects[s]) = 2
          /\ db.subjects[s][1] \notin Live(db)
          /\ db.subjects[s][2] \in Live(db)

(***************************************************************************)
(* SpecTxnFair: SpecTxn with the progress the scheduling gives.  A thread  *)
(* that holds the write transaction keeps running its operation, and a     *)
(* thread blocked in begin_write gets the write transaction if it stays    *)
(* free; begin_write does not serve the blocked threads in their order of  *)
(* arrival.                                                                *)
(***************************************************************************)
\* The next thing the operation of thread t does inside its transaction.
Run(t) == TxnStep(t) \/ TxnStepFails(t) \/ TxnDecodeSwallowed(t) \/ Commit(t)

SpecTxnFair ==
    /\ SpecTxn
    /\ \A t \in Threads :
          /\ WF_vars(Run(t))
          /\ WF_vars(\E call \in TxnCalls : Acquire(t, call))

(***************************************************************************)
(* C40: every mutating repository operation that is started eventually     *)
(* finishes, by committing or by aborting with an error; write             *)
(* transactions are taken one at a time and released at commit or abort,   *)
(* so under weak fairness an operation waiting for the write transaction   *)
(* is eventually served and no reachable state has all pending operations  *)
(* blocked forever.                                                        *)
(***************************************************************************)
C40_EveryOperationFinishes ==
    \A t \in Threads :
        /\ thread[t] = "write" ~> thread[t] \in {"ok", "err"}
        /\ thread[t] = "wait" ~> thread[t] = "write"

\* C40 as amended: an operation that holds the write transaction finishes;
\* a waiting operation is not left blocked while no other operation is
\* inside a transaction, and when every thread waits one of them is served.
C40_NoOperationBlockedForever ==
    /\ \A t \in Threads :
          /\ thread[t] = "write" ~> thread[t] \in {"ok", "err"}
          /\ thread[t] = "wait" ~>
                (thread[t] = "write" \/ \E u \in Threads \ {t} : thread[u] = "write")
    /\ (\A t \in Threads : thread[t] = "wait")
          ~> (\E t \in Threads : thread[t] = "write")

\* One thread waits in begin_write while the other is inside its write
\* transaction, past its first step.
C40_Witness ==
    \E t \in Threads, u \in Threads :
        /\ thread[t] = "wait"
        /\ thread[u] = "write"
        /\ Unwrap(txn[u]).pc > 1

=============================================================================
